---- MODULE Spec2Model ----
(***************************************************************************)
(* Verification model of the comment acquisition and reconciliation        *)
(* pipeline of FuckBilibiliComments.py: the page fetcher's classification  *)
(* of HTTP outcomes, the comment flattener with its reply-thread fetches,  *)
(* the crawl drivers, the comprehensive / test / iteration orchestrators,  *)
(* the propagation of exceptions to __main__ and the rpid + crawl-time     *)
(* merge.                                                                  *)
(***************************************************************************)
EXTENDS Integers, Sequences, FiniteSets, TLC

(***************************************************************************)
(* Bounds of the model                                                     *)
(***************************************************************************)
\* longest popularity pass handed to the merge in SpecMerge
MaxPopLen == 2
\* longest chronological pass handed to the merge in SpecMerge
MaxTimeLen == 2
\* pages of a pass on which the platform still has comments to serve
MaxPages == 2
\* the same, in the runs of the iteration strategies
MaxIterPages == 1
\* top-level entries the platform puts on one page
MaxPageLen == 1
\* last instant of the wall clock; the run starts at instant 1
MaxClock == 4
\* rounds an iteration strategy is followed for
MaxRounds == 3

\* comment identities (rpid) the platform can serve
Rpids == {1, 2}
\* like counts a comment can be observed with
Likes == {0, 1}
\* crawl instants; 0 stands for a crawl-time string that is empty or that
\* strptime cannot parse
CrawlTimes == {0, 1, 2}

(***************************************************************************)
(* Comment records (process_single_comment's dictionary, reduced to the    *)
(* keys the merge reads): rpid, crawl = '爬取时间', ts = '时间戳' (ctime), *)
(* like = '点赞数', src = '重复来源' annotation ("" when absent).          *)
(***************************************************************************)
\* publish time of a comment: fixed per identity
ctime(rpid) == 0

\* '评论类型'
MainComment == "main_comment"   \* '主楼评论'
SubReply == "sub_reply"         \* '楼中楼回复'

\* reply-thread pages hold up to page_size replies (the platform's
\* convention is 20; scaled so that threads of several pages stay small)
page_size == 2

Comment(rpid, crawl, like) ==
    [rpid |-> rpid, crawl |-> crawl, ts |-> ctime(rpid), like |-> like, src |-> "",
     kind |-> MainComment]

InputComments == {Comment(r, c, l) : r \in Rpids, c \in CrawlTimes, l \in Likes}

SeqsUpTo(S, n) == UNION {[1..k -> S] : k \in 0..n}

(***************************************************************************)
(* merge_and_deduplicate_comments / perform_iteration_deduplication        *)
(***************************************************************************)
\* extract_crawl_time_from_filename: the parsed crawl time, else '时间戳'
extract_crawl_time_from_filename(comment) ==
    IF comment.crawl # 0 THEN comment.crawl ELSE comment.ts

\* comment.copy() with the two annotation keys set
Annotate(comment, comment_type) == [comment EXCEPT !.src = comment_type]

\* position of rpid among the dictionary's keys (0: not a key)
KeyIndex(kept, rpid) ==
    IF \E j \in 1..Len(kept) : kept[j].rpid = rpid
    THEN CHOOSE j \in 1..Len(kept) : kept[j].rpid = rpid
    ELSE 0

\* one iteration of `for comment in comments`, ties resolved for the newcomer
dedup_step_later_wins(acc, comment, comment_type) ==
    LET j == KeyIndex(acc.kept, comment.rpid) IN
    IF comment.rpid = 0 THEN acc
    ELSE IF j = 0 THEN [kept |-> Append(acc.kept, comment), dups |-> acc.dups]
    ELSE IF extract_crawl_time_from_filename(comment)
              >= extract_crawl_time_from_filename(acc.kept[j])
         THEN [kept |-> [acc.kept EXCEPT ![j] = comment],
               dups |-> Append(acc.dups, Annotate(acc.kept[j], comment_type))]
         ELSE [kept |-> acc.kept,
               dups |-> Append(acc.dups, Annotate(comment, comment_type))]

\* one iteration of `for comment in comments`, the comparison reversed
dedup_step_earlier_wins(acc, comment, comment_type) ==
    LET j == KeyIndex(acc.kept, comment.rpid) IN
    IF comment.rpid = 0 THEN acc
    ELSE IF j = 0 THEN [kept |-> Append(acc.kept, comment), dups |-> acc.dups]
    ELSE IF extract_crawl_time_from_filename(comment)
              < extract_crawl_time_from_filename(acc.kept[j])
         THEN [kept |-> [acc.kept EXCEPT ![j] = comment],
               dups |-> Append(acc.dups, Annotate(acc.kept[j], comment_type))]
         ELSE [kept |-> acc.kept,
               dups |-> Append(acc.dups, Annotate(comment, comment_type))]

\* one iteration of `for comment in comments` that does not record the
\* record it replaces
dedup_step_forgets_replaced(acc, comment, comment_type) ==
    LET j == KeyIndex(acc.kept, comment.rpid) IN
    IF comment.rpid = 0 THEN acc
    ELSE IF j = 0 THEN [kept |-> Append(acc.kept, comment), dups |-> acc.dups]
    ELSE IF extract_crawl_time_from_filename(comment)
              > extract_crawl_time_from_filename(acc.kept[j])
         THEN [kept |-> [acc.kept EXCEPT ![j] = comment], dups |-> acc.dups]
         ELSE [kept |-> acc.kept,
               dups |-> Append(acc.dups, Annotate(comment, comment_type))]

\* one iteration of `for comment in comments` in deduplicate_by_rpid
dedup_step(acc, comment, comment_type) ==
    LET j == KeyIndex(acc.kept, comment.rpid) IN
    IF comment.rpid = 0 THEN acc
    ELSE IF j = 0 THEN [kept |-> Append(acc.kept, comment), dups |-> acc.dups]
    ELSE IF extract_crawl_time_from_filename(comment)
              > extract_crawl_time_from_filename(acc.kept[j])
         THEN [kept |-> [acc.kept EXCEPT ![j] = comment],
               dups |-> Append(acc.dups, Annotate(acc.kept[j], comment_type))]
         ELSE [kept |-> acc.kept,
               dups |-> Append(acc.dups, Annotate(comment, comment_type))]

RECURSIVE dedup_loop(_, _, _, _)
dedup_loop(comments, i, acc, comment_type) ==
    IF i > Len(comments) THEN acc
    ELSE dedup_loop(comments, i + 1, dedup_step(acc, comments[i], comment_type), comment_type)

\* deduplicate_by_rpid: (list(rpid_to_comment.values()), duplicates)
deduplicate_by_rpid(comments, comment_type) ==
    dedup_loop(comments, 1, [kept |-> <<>>, dups |-> <<>>], comment_type)

\* one fold over the concatenated passes in place of the two phases
merge_single_fold(popularity, time, pop_label, time_label, merge_label) ==
    LET p == deduplicate_by_rpid(popularity, pop_label)
        t == deduplicate_by_rpid(time, time_label)
        m == deduplicate_by_rpid(popularity \o time, merge_label)
    IN  [deduped_popularity |-> p.kept,
         deduped_time       |-> t.kept,
         final_comments     |-> m.kept,
         all_duplicates     |-> m.dups]

\* a second phase in which a record of the popularity pass always wins
merge_popularity_first(popularity, time, pop_label, time_label, merge_label) ==
    LET p == deduplicate_by_rpid(popularity, pop_label)
        t == deduplicate_by_rpid(time, time_label)
        late == SelectSeq(t.kept, LAMBDA c : KeyIndex(p.kept, c.rpid) = 0)
        lost == SelectSeq(t.kept, LAMBDA c : KeyIndex(p.kept, c.rpid) # 0)
    IN  [deduped_popularity |-> p.kept,
         deduped_time       |-> t.kept,
         final_comments     |-> p.kept \o late,
         all_duplicates     |-> p.dups \o t.dups
                                  \o [k \in 1..Len(lost) |-> Annotate(lost[k], merge_label)]]

\* the two-phase merge shared by both merge functions; labels differ only
merge_two_phase(popularity, time, pop_label, time_label, merge_label) ==
    LET p == deduplicate_by_rpid(popularity, pop_label)
        t == deduplicate_by_rpid(time, time_label)
        m == deduplicate_by_rpid(p.kept \o t.kept, merge_label)
    IN  [deduped_popularity |-> p.kept,
         deduped_time       |-> t.kept,
         final_comments     |-> m.kept,
         all_duplicates     |-> p.dups \o t.dups \o m.dups]

merge_and_deduplicate_comments(popularity, time) ==
    merge_two_phase(popularity, time, "pop_sort", "time_sort", "merge")

perform_iteration_deduplication(popularity, time) ==
    merge_two_phase(popularity, time, "pop_crawl", "time_crawl", "final_merge")

(***************************************************************************)
(* Page Fetcher: get_bilibili_comments                                     *)
(***************************************************************************)
\* requests.get raised (connection error, timeout): no HTTP status
NetworkError == 0

\* HTTP outcomes of one comment-page request
Statuses == {NetworkError, 200, 412, 500}

\* envelope codes: 0 success, -400 a platform error (carries no data)
ApiCodes == {0, -400}

\* a raw top-level entry of data.replies, without threaded replies
RawReplies == {[rpid |-> r, like |-> 0] : r \in Rpids}

\* next_offset = '': no cursor; data.cursor.next is falsy or missing
NoOffset == 0

\* the responses the platform can give to the request for page pn of a pass;
\* a comment list is finite: beyond MaxPages the list is empty; a page's
\* data.cursor.next is missing or names the position after the page
PlatformResponses(pn, depth) ==
    {[status |-> s, code |-> 0, replies |-> <<>>, is_end |-> TRUE, next |-> NoOffset] :
        s \in Statuses \ {200}}
    \cup {[status |-> 200, code |-> -400, replies |-> <<>>, is_end |-> TRUE,
           next |-> NoOffset]}
    \cup {[status |-> 200, code |-> 0, replies |-> <<>>, is_end |-> TRUE,
           next |-> NoOffset]}
    \cup {[status |-> 200, code |-> 0, replies |-> rs, is_end |-> e, next |-> c] :
            rs \in (IF pn <= depth
                    THEN SeqsUpTo(RawReplies, MaxPageLen) \ {<<>>}
                    ELSE {}),
            e \in BOOLEAN,
            c \in {NoOffset, pn + 1}}

\* Response.raise_for_status(): HTTPError for 4xx and 5xx
raise_for_status(status) == status >= 400 /\ status < 600

None == [tag |-> "None"]
CookieBanned == [tag |-> "CookieBannedException"]

\* get_bilibili_comments: the JSON body, None, or CookieBannedException.
\* raise_for_status() runs first, inside the try whose except clause
\* catches RequestException (HTTPError is one) and returns None.
get_bilibili_comments(resp) ==
    IF resp.status = NetworkError THEN None
    ELSE IF raise_for_status(resp.status) THEN None
    ELSE IF resp.status = 200
         THEN [tag |-> "result", code |-> resp.code,
               replies |-> resp.replies, is_end |-> resp.is_end,
               next |-> resp.next]
         ELSE IF resp.status = 412 THEN CookieBanned
         ELSE None

(***************************************************************************)
(* Identity Codec: bvid_to_aid / aid_to_bvid                               *)
(*                                                                         *)
(* The program works on 52-bit numbers written with 9 digits of base 58    *)
(* (58^8 <= 2^51 and 2^52 < 58^9).  The model keeps the 12 places of a     *)
(* display id and the two swaps, and scales the numbers to 14 bits written *)
(* with 9 digits of base 3 (3^8 <= 2^13 and 2^14 < 3^9).                    *)
(***************************************************************************)
XOR_CODE == 5419
MAX_AID == 8192
MASK_CODE == MAX_AID - 1
MIN_AID == 1
BASE == 3
BV_LEN == 12

\* the first BASE characters of the program's table
ALPHABET == <<"F", "c", "w">>

\* REVERSE_DICT[char]
REVERSE_DICT(char) == (CHOOSE i \in 1..Len(ALPHABET) : ALPHABET[i] = char) - 1

in_REVERSE_DICT(char) == \E i \in 1..Len(ALPHABET) : ALPHABET[i] = char

\* a & b, a | b, a ^ b on non-negative integers
RECURSIVE bit_and(_, _)
bit_and(a, b) ==
    IF a = 0 \/ b = 0 THEN 0
    ELSE (IF a % 2 = 1 /\ b % 2 = 1 THEN 1 ELSE 0) + 2 * bit_and(a \div 2, b \div 2)

RECURSIVE bit_or(_, _)
bit_or(a, b) ==
    IF a = 0 THEN b ELSE IF b = 0 THEN a
    ELSE (IF a % 2 = 1 \/ b % 2 = 1 THEN 1 ELSE 0) + 2 * bit_or(a \div 2, b \div 2)

RECURSIVE bit_xor(_, _)
bit_xor(a, b) ==
    IF a = 0 THEN b ELSE IF b = 0 THEN a
    ELSE (IF a % 2 # b % 2 THEN 1 ELSE 0) + 2 * bit_xor(a \div 2, b \div 2)

\* str.upper() on the characters of the model
upper(char) ==
    IF char = "b" THEN "B" ELSE IF char = "v" THEN "V"
    ELSE IF char = "c" THEN "C" ELSE IF char = "w" THEN "W" ELSE char

\* list[i], list[j] = list[j], list[i] (places counted from 0)
swap(list, i, j) == [list EXCEPT ![i + 1] = list[j + 1], ![j + 1] = list[i + 1]]

\* the two swaps of places 3 <-> 9 and 4 <-> 7
swap_places(list) == swap(swap(list, 3, 9), 4, 7)

NoAid == [ok |-> FALSE, aid |-> 0]
NoBvid == [ok |-> FALSE, bvid |-> <<>>]

\* the decoding loop `for i in range(3, BV_LEN)` from place i on
RECURSIVE decode_loop(_, _, _)
decode_loop(bvid_list, i, aid) ==
    IF i >= BV_LEN THEN [ok |-> TRUE, aid |-> aid]
    ELSE IF ~in_REVERSE_DICT(bvid_list[i + 1]) THEN NoAid
    ELSE decode_loop(bvid_list, i + 1, aid * BASE + REVERSE_DICT(bvid_list[i + 1]))

\* the range test of bvid_to_aid: True when the number is refused
out_of_range(aid) == aid >= MAX_AID * 2 \/ aid < MAX_AID

\* bvid_to_aid: the AV number, or None
bvid_to_aid(bvid) ==
    IF Len(bvid) # BV_LEN THEN NoAid
    ELSE IF <<upper(bvid[1]), upper(bvid[2]), upper(bvid[3])>> # <<"B", "V", "1">>
    THEN NoAid
    ELSE LET decoded == decode_loop(swap_places(bvid), 3, 0) IN
         IF ~decoded.ok THEN NoAid
         ELSE IF out_of_range(decoded.aid) THEN NoAid
         ELSE [ok |-> TRUE, aid |-> bit_xor(bit_and(decoded.aid, MASK_CODE), XOR_CODE)]

\* the encoding loop `for i in range(BV_LEN - 1, 2, -1)` from place i down
RECURSIVE encode_loop(_, _, _)
encode_loop(bvid, i, aid) ==
    IF i <= 2 \/ aid = 0 THEN bvid
    ELSE encode_loop([bvid EXCEPT ![i + 1] = ALPHABET[(aid % BASE) + 1]], i - 1,
                     aid \div BASE)

\* ''.join(bvid)
join(list) == SelectSeq(list, LAMBDA char : char # "")

\* aid_to_bvid on an integer: the BV number, or None
aid_to_bvid(aid) ==
    IF aid < MIN_AID \/ aid >= MAX_AID THEN NoBvid
    ELSE [ok |-> TRUE,
          bvid |-> join(swap_places(
                     encode_loop(<<"B", "V", "1", "", "", "", "", "", "", "", "", "">>,
                                 BV_LEN - 1, bit_xor(bit_or(MAX_AID, aid), XOR_CODE))))]

(***************************************************************************)
(* Request signature: generate_w_rid                                       *)
(***************************************************************************)
\* A dict is the sequence of its items [key, value] in insertion order, the
\* keys being distinct.  A signed string is the sequence of its "key=value"
\* pieces (joined by "&" in the program) followed by the fixed value a.
SignSalt == [key |-> "a", value |-> "ea1db124af3c7062474693fa704f4ff8"]

\* the keys of the model in the order Python's sorted() puts them
KeysSorted ==
    <<"mode", "next", "oid", "plat", "pn", "ps", "seek_rpid", "sort", "type",
      "w_rid", "web_location", "wts">>

dict_keys(d) == {d[i].key : i \in 1..Len(d)}

\* the item of d with the key
dict_item(d, key) == d[CHOOSE i \in 1..Len(d) : d[i].key = key]

\* l = {k: v for k, v in params.items() if k != 'w_rid'}
without_w_rid(params) == SelectSeq(params, LAMBDA item : item.key # "w_rid")

\* param_order: the four leading keys, pn and seek_rpid when given, the
\* three trailing keys
param_order(l) ==
    <<"oid", "type", "sort", "ps">>
      \o (IF "pn" \in dict_keys(l) THEN <<"pn">> ELSE <<>>)
      \o (IF "seek_rpid" \in dict_keys(l) THEN <<"seek_rpid">> ELSE <<>>)
      \o <<"plat", "web_location", "wts">>

\* the remaining keys in the order the dict lists them
remaining_unsorted(l, order) ==
    LET rest == SelectSeq(l, LAMBDA item : \A i \in 1..Len(order) : order[i] # item.key)
    IN  [i \in 1..Len(rest) |-> rest[i].key]

\* sorted(set(l.keys()) - set(param_order))
remaining_sorted(l, order) ==
    SelectSeq(KeysSorted,
              LAMBDA k : k \in dict_keys(l) /\ \A i \in 1..Len(order) : order[i] # k)

\* param_list: f"{key}={l[key]}" for the keys of param_order that l has,
\* then for the remaining keys
param_list(l) ==
    LET present == SelectSeq(param_order(l), LAMBDA k : k \in dict_keys(l))
        keys == present \o remaining_sorted(l, param_order(l))
    IN  [i \in 1..Len(keys) |-> dict_item(l, keys[i])]

\* hashlib.md5(string.encode('utf-8')).hexdigest(): a function of the string
md5(string) == [md5_of |-> string]

\* generate_w_rid: md5 of the joined param_list followed by a
generate_w_rid(params) == md5(Append(param_list(without_w_rid(params)), SignSalt))

(***************************************************************************)
(* Comment Flattener                                                       *)
(***************************************************************************)
\* dict.get(key, default)
get(d, key, default) == IF key \in DOMAIN d THEN d[key] ELSE default

\* A hint text (reply_control.sub_reply_entry_text) is a sequence of
\* tokens: '共', a maximal run of digits with its value n, '条回复', or
\* other text.  "" is the empty sequence.
Token(tok, n) == [tok |-> tok, n |-> n]
HintPrefix == Token("gong", 0)          \* '共'
HintMarker == Token("tiao_huifu", 0)    \* '条回复'
OtherText == Token("text", 0)
Digits(n) == Token("digits", n)

\* '条回复' in sub_reply_entry_text
contains_marker(text) == \E i \in 1..Len(text) : text[i] = HintMarker

\* the positions where r'共(\d+)条回复' matches
match_positions(text) ==
    {i \in 1..Len(text) : /\ i + 2 <= Len(text)
                          /\ text[i] = HintPrefix
                          /\ text[i + 1].tok = "digits"
                          /\ text[i + 2] = HintMarker}

NoMatch == [matched |-> FALSE, group1 |-> 0]

\* re.search(r'共(\d+)条回复', text): the first match, with group(1) as int
re_search(text) ==
    IF match_positions(text) = {} THEN NoMatch
    ELSE LET i == CHOOSE k \in match_positions(text) :
                      \A m \in match_positions(text) : k <= m
         IN  [matched |-> TRUE, group1 |-> text[i + 1].n]

\* process_single_comment: '爬取时间' is datetime.now() at flatten time,
\* '时间戳' the entry's ctime, '评论类型' from is_sub_reply
process_single_comment(reply, t, is_sub_reply) ==
    [Comment(reply.rpid, t, get(reply, "like", 0)) EXCEPT
        !.ts = get(reply, "ctime", 0),
        !.kind = IF is_sub_reply THEN SubReply ELSE MainComment]

\* the replies the reply-thread endpoint holds for page pn of a thread
thread_page(thread, pn) ==
    SubSeq(thread, (pn - 1) * page_size + 1,
           IF pn * page_size <= Len(thread) THEN pn * page_size ELSE Len(thread))

\* the endpoint's answer to the request for page pn of the thread of root:
\* the request numbered fail_at of the thread's source fails with its fault
sub_reply_response(source, root, pn) ==
    IF source[root].fail_at = pn
    THEN [fault |-> source[root].fault, replies |-> <<>>]
    ELSE [fault |-> "none", replies |-> thread_page(source[root].thread, pn)]

\* page_replies[skip_in_page:] on the first requested page when skipping
skip_slice(page_replies, page, start_page, skip_count) ==
    IF page = start_page /\ skip_count > 0
    THEN SubSeq(page_replies, (skip_count % page_size) + 1, Len(page_replies))
    ELSE page_replies

\* a loop that returns nothing of a thread when one of its requests fails
RECURSIVE sub_reply_loop_drops_on_fault(_, _, _, _, _, _, _)
sub_reply_loop_drops_on_fault(page, stop_page, start_page, skip_count, source, root, acc) ==
    IF page >= stop_page THEN acc
    ELSE LET response == sub_reply_response(source, root, page)
             page_replies == skip_slice(response.replies, page, start_page, skip_count)
             asked == Append(acc.requests, [root |-> root, pn |-> page])
         IN  IF response.fault # "none"
             THEN [all_replies |-> <<>>, requests |-> asked]
             ELSE IF Len(page_replies) < page_size
             THEN [all_replies |-> acc.all_replies \o page_replies, requests |-> asked]
             ELSE sub_reply_loop_drops_on_fault(page + 1, stop_page, start_page, skip_count,
                                                source, root,
                                                [all_replies |-> acc.all_replies \o page_replies,
                                                 requests |-> asked])

\* get_all_sub_replies, the loop `for page in range(start_page,
\* start_page + total_pages)` from page on: a failed request (HTTP error
\* status, network error, code # 0, malformed data) breaks, a page shorter
\* than page_size
\* after slicing breaks; requests lists the page numbers asked for
RECURSIVE sub_reply_loop(_, _, _, _, _, _, _)
sub_reply_loop(page, stop_page, start_page, skip_count, source, root, acc) ==
    IF page >= stop_page THEN acc
    ELSE LET response == sub_reply_response(source, root, page)
             page_replies == skip_slice(response.replies, page, start_page, skip_count)
             asked == Append(acc.requests, [root |-> root, pn |-> page])
         IN  IF response.fault # "none"
             THEN [all_replies |-> acc.all_replies, requests |-> asked]
             ELSE IF Len(page_replies) < page_size
             THEN [all_replies |-> acc.all_replies \o page_replies, requests |-> asked]
             ELSE sub_reply_loop(page + 1, stop_page, start_page, skip_count, source, root,
                                 [all_replies |-> acc.all_replies \o page_replies,
                                  requests |-> asked])

NoSubReplies == [all_replies |-> <<>>, requests |-> <<>>]

\* a fetch that starts one page too far
get_all_sub_replies_from_next_page(root_rpid, total_replies, skip_count, source) ==
    IF root_rpid = 0 \/ total_replies <= 0 THEN NoSubReplies
    ELSE LET start_page == (skip_count \div page_size) + 2
             total_pages == ((total_replies - skip_count - 1) \div page_size) + 1
         IN  sub_reply_loop(start_page, start_page + total_pages, start_page,
                            skip_count, source, root_rpid, NoSubReplies)

\* get_all_sub_replies(root_rpid, oid, total_replies, logger, skip_count),
\* with the video's oid given
get_all_sub_replies(root_rpid, total_replies, skip_count, source) ==
    IF root_rpid = 0 \/ total_replies <= 0 THEN NoSubReplies
    ELSE LET start_page == (skip_count \div page_size) + 1
             total_pages == ((total_replies - skip_count - 1) \div page_size) + 1
         IN  sub_reply_loop(start_page, start_page + total_pages, start_page,
                            skip_count, source, root_rpid, NoSubReplies)

\* [process_single_comment(r, is_sub_reply=True) for r in replies]
sub_comments(replies, t) ==
    [j \in 1..Len(replies) |-> process_single_comment(replies[j], t, TRUE)]

\* the body of process_comments_page's loop for one top-level entry: the
\* records appended to csv_data and the reply-thread requests made
process_entry(reply, t, source) ==
    LET main_comment == process_single_comment(reply, t, FALSE)
        sub_reply_entry_text == get(reply, "sub_reply_entry_text", <<>>)
        sub_replies == get(reply, "replies", <<>>)
        sub_reply_count == get(reply, "rcount", 0)
    IN  IF sub_reply_entry_text # <<>> /\ contains_marker(sub_reply_entry_text)
        THEN LET match == re_search(sub_reply_entry_text)
             IN  IF match.matched
                 THEN LET fetched == get_all_sub_replies(reply.rpid, match.group1, 0, source)
                      IN  [csv_data |-> <<main_comment>> \o sub_comments(fetched.all_replies, t),
                           requests |-> fetched.requests]
                 ELSE [csv_data |-> <<main_comment>>, requests |-> <<>>]
        ELSE IF sub_replies # <<>>
        THEN IF sub_reply_count > Len(sub_replies)
             THEN LET fetched == get_all_sub_replies(reply.rpid, sub_reply_count,
                                                     Len(sub_replies), source)
                  IN  [csv_data |-> <<main_comment>> \o sub_comments(sub_replies, t)
                                        \o sub_comments(fetched.all_replies, t),
                       requests |-> fetched.requests]
             ELSE [csv_data |-> <<main_comment>> \o sub_comments(sub_replies, t),
                   requests |-> <<>>]
        ELSE IF sub_reply_count > 0
        THEN LET fetched == get_all_sub_replies(reply.rpid, sub_reply_count, 0, source)
             IN  [csv_data |-> <<main_comment>> \o sub_comments(fetched.all_replies, t),
                  requests |-> fetched.requests]
        ELSE [csv_data |-> <<main_comment>>, requests |-> <<>>]

\* process_comments_page: the entries' records, in page order
RECURSIVE process_comments_page(_, _, _)
process_comments_page(replies, t, source) ==
    IF replies = <<>> THEN <<>>
    ELSE process_entry(Head(replies), t, source).csv_data
            \o process_comments_page(Tail(replies), t, source)

\* the reply-thread requests process_comments_page makes, in order
RECURSIVE sub_reply_requests(_, _, _)
sub_reply_requests(replies, t, source) ==
    IF replies = <<>> THEN <<>>
    ELSE process_entry(Head(replies), t, source).requests
            \o sub_reply_requests(Tail(replies), t, source)

\* a reply-thread endpoint that is never asked: the pages served to the
\* crawl drivers carry entries without threaded replies
NoThreads == <<>>

(***************************************************************************)
(* Crawl Drivers: what one loop iteration decides                          *)
(***************************************************************************)
REASON_UNKNOWN == "unknown"                 \* "未知原因"
REASON_REQUEST_FAILED == "request-failed"   \* "API请求失败"
REASON_API_ERROR == "api-error"             \* "API返回错误: ..."
REASON_EXHAUSTED == "exhausted"             \* "评论已全部爬取完毕"
REASON_TEST_LIMIT == "test-mode-limit"      \* "测试模式限制"
REASON_NO_DATA == "no-page-data"            \* "当前页无评论数据"
REASON_PAGE_LIMIT == "page-limit-reached"   \* "已达到指定页数限制"
MSG_FETCH_FAILED == "fetch-failed-msg"      \* "获取评论失败，停止爬取"
MSG_NO_MORE == "no-more-msg"                \* "没有更多评论了"
MSG_TEST_ONE_PAGE == "test-one-page-msg"    \* "测试模式，只爬取一页"
Continue == "continue"

\* the driver reporting a failed request as the end of the list
with_reason_break_fail_as_exhausted(result, is_test) ==
    IF result.tag = "None" THEN REASON_EXHAUSTED
    ELSE IF result.code # 0 THEN REASON_API_ERROR
    ELSE IF result.replies = <<>> THEN REASON_EXHAUSTED
    ELSE IF is_test THEN REASON_TEST_LIMIT
    ELSE Continue

\* crawl_all_comments_with_reason: the break taken by one iteration, if any
with_reason_break(result, is_test) ==
    IF result.tag = "None" THEN REASON_REQUEST_FAILED
    ELSE IF result.code # 0 THEN REASON_API_ERROR
    ELSE IF result.replies = <<>> THEN REASON_EXHAUSTED
    ELSE IF is_test THEN REASON_TEST_LIMIT
    ELSE Continue

\* crawl_test_mode_comments: page_comments and has_more of one iteration
test_page_comments(comments_data) ==
    IF comments_data.tag = "None" THEN <<>> ELSE comments_data.replies

test_has_more(comments_data) ==
    IF comments_data.tag = "None" THEN FALSE ELSE comments_data.is_end = FALSE

\* the test-mode loop with its bound one page too far
test_mode_break_cap_off_by_one(comments_data, current_page, cap) ==
    IF test_page_comments(comments_data) = <<>> THEN REASON_NO_DATA
    ELSE IF ~test_has_more(comments_data) THEN REASON_EXHAUSTED
    ELSE IF current_page + 1 > cap + 1 THEN REASON_PAGE_LIMIT
    ELSE Continue

\* crawl_test_mode_comments: the end of the loop reached by one iteration
test_mode_break(comments_data, current_page, cap) ==
    IF test_page_comments(comments_data) = <<>> THEN REASON_NO_DATA
    ELSE IF ~test_has_more(comments_data) THEN REASON_EXHAUSTED
    ELSE IF current_page + 1 > cap THEN REASON_PAGE_LIMIT
    ELSE Continue

\* crawl_all_comments: the break taken by one iteration, if any
crawl_all_break(result, is_test) ==
    IF result.tag = "None" THEN MSG_FETCH_FAILED
    ELSE IF result.code # 0 THEN REASON_API_ERROR
    ELSE IF result.replies = <<>> THEN MSG_NO_MORE
    ELSE IF is_test THEN MSG_TEST_ONE_PAGE
    ELSE Continue

\* the delay the caller configures, in milliseconds (get_user_input's default)
delay_ms == 3000

\* `if delay_ms > 0: time.sleep(delay_ms / 1000)`, the last statement of the
\* loop body: reached by the iterations that take no break (in test mode the
\* one after which the while condition fails included)
sleeps_after_page(brk, delay) ==
    brk \in {Continue, REASON_PAGE_LIMIT} /\ delay > 0

\* how a response is classified in the pass log
Outcome(resp) ==
    IF resp.status = NetworkError THEN "network-error"
    ELSE IF resp.status = 412 THEN "http-412"
    ELSE IF resp.status # 200 THEN "http-error"
    ELSE IF resp.code # 0 THEN "api-error"
    ELSE IF resp.replies = <<>> THEN "empty"
    ELSE IF resp.is_end THEN "page-end"
    ELSE "page"

(***************************************************************************)
(* Orchestration decisions                                                 *)
(***************************************************************************)
\* the comprehensive caller always running the second pass
need_time_crawl_always(popularity_end_reason) == TRUE

\* crawl_comprehensive_mode_comments: need_time_crawl
need_time_crawl(popularity_end_reason) == popularity_end_reason # REASON_EXHAUSTED

\* set(comment.get('rpid') for comment in comments if comment.get('rpid'))
rpid_set(comments) == {comments[i].rpid : i \in 1..Len(comments)} \ {0}

\* the ratio with the other set's size as its denominator
calculate_duplicate_rate_over_prev(prev_rpids, current_rpids) ==
    IF prev_rpids = {} THEN [num |-> 0, den |-> 1]
    ELSE [num |-> Cardinality(prev_rpids \cap current_rpids) * 100,
          den |-> Cardinality(prev_rpids)]

\* calculate_duplicate_rate: the percentage (len(intersection) /
\* len(current_rpids)) * 100, kept as the fraction num / den; 0.0 is 0 / 1
calculate_duplicate_rate(prev_rpids, current_rpids) ==
    IF current_rpids = {} THEN [num |-> 0, den |-> 1]
    ELSE [num |-> Cardinality(prev_rpids \cap current_rpids) * 100,
          den |-> Cardinality(current_rpids)]

\* duplicate_rate >= threshold
rate_at_least(duplicate_rate, threshold) ==
    duplicate_rate.num >= threshold * duplicate_rate.den

\* calculate_duplicate_rate(...) >= threshold
rate_reaches(prev_rpids, current_rpids, threshold) ==
    rate_at_least(calculate_duplicate_rate(prev_rpids, current_rpids), threshold)

(***************************************************************************)
(* State                                                                   *)
(***************************************************************************)
VARIABLES
    \* ---- run configuration (get_user_input / argv) ----
    mode,               \* "comprehensive" | "test" | "iter_time" | "iter_rate" | "legacy"
    test_mode,          \* the test_mode argument of the unbounded drivers
    max_pages,          \* crawl_test_mode_comments' cap
    popularity_threshold,
    time_threshold,
    end_time,           \* crawl_time_iteration's deadline
    \* ---- orchestrator ----
    pc,                 \* where the caller of the drivers stands
    now,                \* wall clock (datetime.now())
    popularity_comments,
    popularity_end_reason,
    time_comments,
    iteration_count,
    all_popularity_comments,
    all_time_comments,
    popularity_continue,
    time_continue,
    popularity_rpid_history,
    time_rpid_history,
    popularity_duplicate_rates,
    time_duplicate_rates,
    merged_comments,    \* the list handed to process_and_organize_data
    duplicate_comments,
    \* ---- the running crawl driver ----
    driver,             \* "none" | "with_reason" | "test_mode" | "crawl_all"
    sort,               \* ordering of the pass: 1 popularity, 0 chronological
    page_count,         \* page_count / current_page
    next_offset,        \* the cursor kept from the last page, NoOffset for ''
    all_comments,       \* the driver's accumulator
    end_reason,
    dpc,                \* "idle" | "loop" | "returned" | "raised"
    \* ---- observation of the run ----
    pass_log,           \* per request of the current pass: page number and outcome
    ban_answered,       \* some comment-page request was answered 412
    requests_after_ban, \* comment-page requests issued after that answer
    time_passes,        \* chronological passes started
    popularity_passes,  \* popularity passes started
    crawled_rpids,      \* rpids of the records the drivers have appended
    time_requests,      \* chronological comment-page requests issued
    \* ---- SpecMerge ----
    in_popularity,      \* the popularity pass handed to the merge
    in_time,            \* the chronological pass handed to the merge
    merge_fn,           \* which of the two merge functions is applied
    merge_out,          \* the merge's return value, or NotRun
    \* ---- SpecCall ----
    call,               \* the function called on its own and its arguments
    ret                 \* its return value, or NotRun

cfgvars == <<mode, test_mode, max_pages, popularity_threshold, time_threshold, end_time>>
orchvars == <<pc, popularity_comments, popularity_end_reason, time_comments,
              iteration_count, all_popularity_comments, all_time_comments,
              popularity_continue, time_continue, popularity_rpid_history,
              time_rpid_history, popularity_duplicate_rates, time_duplicate_rates,
              merged_comments, duplicate_comments>>
drvvars == <<driver, sort, page_count, next_offset, all_comments, end_reason, dpc>>
obsvars == <<pass_log, ban_answered, requests_after_ban, time_passes, popularity_passes,
             crawled_rpids, time_requests>>
mvars == <<in_popularity, in_time, merge_fn, merge_out, call, ret>>
vars == <<cfgvars, orchvars, now, drvvars, obsvars, mvars>>

NotRun == [run |-> FALSE]
NoCall == [fn |-> "none"]

Modes == {"comprehensive", "test", "iter_time", "iter_rate", "legacy"}
IterModes == {"iter_time", "iter_rate"}
\* thresholds get_user_input accepts: strictly between 0 and 100
Thresholds == {50, 90}
\* seconds one request and the delay after it can take
Durations == {0, 1}

Min(a, b) == IF a < b THEN a ELSE b

\* the responses possible for page pn of a pass of the current run
Responses(pn) ==
    PlatformResponses(pn, IF mode \in IterModes THEN MaxIterPages ELSE MaxPages)

(***************************************************************************)
(* Init: the state once get_user_input has returned                        *)
(***************************************************************************)
MergeIdle ==
    /\ in_popularity = <<>>
    /\ in_time = <<>>
    /\ merge_fn = "none"
    /\ merge_out = NotRun
    /\ call = NoCall
    /\ ret = NotRun

Init ==
    /\ mode \in Modes
    /\ test_mode \in (IF mode \in {"comprehensive", "legacy"} THEN BOOLEAN ELSE {FALSE})
    /\ max_pages \in (IF mode = "test" THEN 1..MaxPages ELSE {0})
    /\ sort \in (IF mode = "test" THEN {0, 1}
                 ELSE IF mode = "legacy" THEN {2, 3} ELSE {1})
    /\ popularity_threshold \in (IF mode = "iter_rate" THEN Thresholds ELSE {0})
    /\ time_threshold \in (IF mode = "iter_rate" THEN Thresholds ELSE {0})
    /\ end_time \in (IF mode = "iter_time" THEN 2..MaxClock ELSE {0})
    /\ pc = "start"
    /\ now = 1
    /\ popularity_comments = <<>>
    /\ popularity_end_reason = REASON_UNKNOWN
    /\ time_comments = <<>>
    /\ iteration_count = 0
    /\ all_popularity_comments = <<>>
    /\ all_time_comments = <<>>
    /\ popularity_continue = TRUE
    /\ time_continue = TRUE
    /\ popularity_rpid_history = <<>>
    /\ time_rpid_history = <<>>
    /\ popularity_duplicate_rates = <<>>
    /\ time_duplicate_rates = <<>>
    /\ merged_comments = <<>>
    /\ duplicate_comments = <<>>
    /\ driver = "none"
    /\ page_count = 0
    /\ next_offset = NoOffset
    /\ all_comments = <<>>
    /\ end_reason = REASON_UNKNOWN
    /\ dpc = "idle"
    /\ pass_log = <<>>
    /\ ban_answered = FALSE
    /\ requests_after_ban = 0
    /\ crawled_rpids = {}
    /\ time_passes = 0
    /\ popularity_passes = 0
    /\ time_requests = 0
    /\ MergeIdle

(***************************************************************************)
(* Calling a driver: its locals at entry                                   *)
(***************************************************************************)
CallDriver(d, s) ==
    /\ driver' = d
    /\ sort' = s
    /\ page_count' = 1
    /\ next_offset' = NoOffset
    /\ all_comments' = <<>>
    /\ end_reason' = REASON_UNKNOWN
    /\ dpc' = "loop"
    /\ pass_log' = <<>>
    /\ time_passes' = IF s = 0 THEN time_passes + 1 ELSE time_passes
    /\ popularity_passes' = IF s = 1 THEN popularity_passes + 1 ELSE popularity_passes

(***************************************************************************)
(* Exceptions: the frames between __main__ and the page fetcher and the    *)
(* except clauses that cover the call each frame is in                     *)
(***************************************************************************)
ExceptionClasses ==
    {"CookieBannedException", "RequestException", "Exception", "KeyboardInterrupt"}

\* isinstance(exc, cls): CookieBannedException and RequestException derive
\* from Exception, KeyboardInterrupt from BaseException only
is_instance(exc, cls) ==
    \/ exc = cls
    \/ cls = "Exception" /\ exc \in {"CookieBannedException", "RequestException"}

\* the frames on the stack while a comment page is requested, outermost first
call_chain(m) ==
    IF m = "comprehensive"
    THEN <<"__main__", "crawl_comprehensive_mode_comments",
           "crawl_all_comments_with_reason", "get_bilibili_comments">>
    ELSE IF m = "test"
    THEN <<"__main__", "crawl_test_mode_comments", "get_bilibili_comments">>
    ELSE IF m = "iter_time"
    THEN <<"__main__", "crawl_iteration_mode_comments", "crawl_time_iteration",
           "crawl_all_comments_with_reason", "get_bilibili_comments">>
    ELSE IF m = "iter_rate"
    THEN <<"__main__", "crawl_iteration_mode_comments", "crawl_duplicate_rate_iteration",
           "crawl_all_comments_with_reason", "get_bilibili_comments">>
    ELSE <<"__main__", "crawl_all_comments", "get_bilibili_comments">>

\* the except clauses around the call a frame is in, in source order
except_clauses(frame) ==
    IF frame = "get_bilibili_comments"
    THEN <<[cls |-> "RequestException", does |-> "return_none"]>>
    ELSE IF frame = "crawl_iteration_mode_comments"
    THEN <<[cls |-> "Exception", does |-> "return_false"]>>
    ELSE IF frame = "__main__"
    THEN <<[cls |-> "CookieBannedException", does |-> "handle_cookie_banned_error"],
           [cls |-> "KeyboardInterrupt", does |-> "exit_0"],
           [cls |-> "Exception", does |-> "exit_1"]>>
    ELSE <<>>

\* the first clause of the frame that matches exc
matching_clauses(frame, exc) ==
    SelectSeq(except_clauses(frame), LAMBDA c : is_instance(exc, c.cls))

Uncaught == [caught_in |-> "none", does |-> "traceback"]

\* exc raised in the innermost of frames: the frame that catches it and
\* what its clause does
RECURSIVE unwind(_, _)
unwind(frames, exc) ==
    IF frames = <<>> THEN Uncaught
    ELSE LET frame == frames[Len(frames)] IN
         IF matching_clauses(frame, exc) # <<>>
         THEN [caught_in |-> frame, does |-> matching_clauses(frame, exc)[1].does]
         ELSE unwind(SubSeq(frames, 1, Len(frames) - 1), exc)

\* 'output_folder' in locals() in the handler of __main__: the interactive
\* modes create the folder in __main__, the argv path inside crawl_all_comments
output_folder_known(m) == m # "legacy"

\* how the run goes on once the exception is caught
run_outcome(m, caught) ==
    IF caught.does = "handle_cookie_banned_error"
    THEN [handler |-> "cookie_banned", output_deleted |-> output_folder_known(m),
          exit |-> "1"]
    ELSE IF caught.does = "return_false"
    THEN [handler |-> "iteration_failed", output_deleted |-> FALSE, exit |-> "1"]
    ELSE IF caught.does = "return_none"
    THEN [handler |-> "request_failed", output_deleted |-> FALSE, exit |-> "running"]
    ELSE IF caught.does = "exit_0"
    THEN [handler |-> "interrupted", output_deleted |-> FALSE, exit |-> "0"]
    ELSE [handler |-> "error", output_deleted |-> FALSE, exit |-> "1"]

\* where a CookieBannedException raised in a driver's request lands: the
\* handler of __main__, or the `except Exception` of
\* crawl_iteration_mode_comments
Unwind ==
    IF unwind(call_chain(mode), "CookieBannedException").caught_in = "__main__"
    THEN "banned" ELSE "failed"

\* a request that always carries the cursor it was handed
request_params_with_cursor(offset, is_first_page, page_num) ==
    IF offset # NoOffset
    THEN [k \in {"seek_rpid"} |-> offset]
    ELSE IF ~is_first_page THEN [k \in {"pn"} |-> page_num]
    ELSE [k \in {} |-> 0]

\* get_bilibili_comments: the paging keys of params (the other keys, oid,
\* type, mode, ps, plat, web_location, w_rid and wts, are on every request)
request_params(offset, is_first_page, page_num) ==
    IF ~is_first_page
    THEN [k \in {"pn"} |-> page_num]
    ELSE IF offset # NoOffset
         THEN [k \in {"seek_rpid"} |-> offset]
         ELSE [k \in {} |-> 0]

\* what every comment-page request leaves in the observation variables;
\* slept: time.sleep was called in the same loop iteration, after the request
Observe(resp, slept) ==
    /\ pass_log' = Append(pass_log, [pn |-> page_count, out |-> Outcome(resp),
                                     slept |-> slept,
                                     next_offset |-> next_offset,
                                     params |-> request_params(next_offset,
                                                               page_count = 1,
                                                               page_count)])
    /\ ban_answered' = (ban_answered \/ resp.status = 412)
    /\ requests_after_ban' = IF ban_answered THEN requests_after_ban + 1
                             ELSE requests_after_ban
    /\ time_requests' = IF sort = 0 THEN time_requests + 1 ELSE time_requests
    /\ UNCHANGED <<time_passes, popularity_passes>>

(***************************************************************************)
(* One iteration of crawl_all_comments_with_reason's loop                  *)
(***************************************************************************)
WithReasonStep ==
    /\ driver = "with_reason" /\ dpc = "loop"
    /\ \E resp \in Responses(page_count), dt \in Durations :
        LET result == get_bilibili_comments(resp)
            t == Min(now + dt, MaxClock)
        IN
        /\ now' = t
        /\ Observe(resp, /\ result # CookieBanned
                         /\ sleeps_after_page(with_reason_break(result, test_mode), delay_ms))
        /\ IF result = CookieBanned
           THEN /\ dpc' = "raised"
                /\ pc' = Unwind
                /\ UNCHANGED <<all_comments, end_reason, page_count, next_offset>>
           ELSE LET brk == with_reason_break(result, test_mode) IN
                /\ all_comments' =
                     IF result.tag = "result" /\ result.code = 0
                     THEN all_comments \o process_comments_page(result.replies, t, NoThreads)
                     ELSE all_comments
                /\ end_reason' = IF brk = Continue THEN end_reason ELSE brk
                /\ page_count' = IF brk = Continue THEN page_count + 1 ELSE page_count
                /\ next_offset' =
                     IF result.tag = "result" /\ result.code = 0 /\ result.replies # <<>>
                     THEN result.next ELSE next_offset
                /\ dpc' = IF brk = Continue THEN "loop" ELSE "returned"
                /\ UNCHANGED pc
    /\ crawled_rpids' = crawled_rpids \cup rpid_set(all_comments')
    /\ UNCHANGED <<cfgvars, driver, sort, mvars>>
    /\ UNCHANGED <<popularity_comments, popularity_end_reason, time_comments,
                   iteration_count, all_popularity_comments, all_time_comments,
                   popularity_continue, time_continue, popularity_rpid_history,
                   time_rpid_history, popularity_duplicate_rates, time_duplicate_rates,
                   merged_comments, duplicate_comments>>

(***************************************************************************)
(* One iteration of crawl_test_mode_comments' loop                         *)
(***************************************************************************)
TestModeStep ==
    /\ driver = "test_mode" /\ dpc = "loop"
    /\ \E resp \in Responses(page_count), dt \in Durations :
        LET comments_data == get_bilibili_comments(resp)
            t == Min(now + dt, MaxClock)
        IN
        /\ now' = t
        /\ Observe(resp, /\ comments_data # CookieBanned
                         /\ sleeps_after_page(test_mode_break(comments_data, page_count, max_pages),
                                              delay_ms))
        /\ IF comments_data = CookieBanned
           THEN /\ dpc' = "raised"
                /\ pc' = Unwind
                /\ UNCHANGED <<all_comments, end_reason, page_count, next_offset>>
           ELSE LET brk == test_mode_break(comments_data, page_count, max_pages) IN
                /\ all_comments' =
                     all_comments \o process_comments_page(test_page_comments(comments_data), t, NoThreads)
                /\ end_reason' = IF brk = Continue THEN end_reason ELSE brk
                /\ page_count' = IF brk \in {Continue, REASON_PAGE_LIMIT}
                                 THEN page_count + 1 ELSE page_count
                /\ next_offset' = IF comments_data.tag = "result"
                                  THEN comments_data.next ELSE NoOffset
                /\ dpc' = IF brk = Continue THEN "loop" ELSE "returned"
                /\ UNCHANGED pc
    /\ crawled_rpids' = crawled_rpids \cup rpid_set(all_comments')
    /\ UNCHANGED <<cfgvars, driver, sort, mvars>>
    /\ UNCHANGED <<popularity_comments, popularity_end_reason, time_comments,
                   iteration_count, all_popularity_comments, all_time_comments,
                   popularity_continue, time_continue, popularity_rpid_history,
                   time_rpid_history, popularity_duplicate_rates, time_duplicate_rates,
                   merged_comments, duplicate_comments>>

(***************************************************************************)
(* One iteration of crawl_all_comments' loop                               *)
(***************************************************************************)
CrawlAllStep ==
    /\ driver = "crawl_all" /\ dpc = "loop"
    /\ \E resp \in Responses(page_count), dt \in Durations :
        LET result == get_bilibili_comments(resp)
            t == Min(now + dt, MaxClock)
        IN
        /\ now' = t
        /\ Observe(resp, /\ result # CookieBanned
                         /\ sleeps_after_page(crawl_all_break(result, test_mode), delay_ms))
        /\ IF result = CookieBanned
           THEN /\ dpc' = "raised"
                /\ pc' = Unwind
                /\ UNCHANGED <<all_comments, end_reason, page_count, next_offset>>
           ELSE LET brk == crawl_all_break(result, test_mode) IN
                /\ all_comments' =
                     IF result.tag = "result" /\ result.code = 0
                     THEN all_comments \o process_comments_page(result.replies, t, NoThreads)
                     ELSE all_comments
                /\ end_reason' = IF brk = Continue THEN end_reason ELSE brk
                /\ page_count' = IF brk = Continue THEN page_count + 1 ELSE page_count
                /\ next_offset' =
                     IF result.tag = "result" /\ result.code = 0 /\ result.replies # <<>>
                     THEN result.next ELSE next_offset
                /\ dpc' = IF brk = Continue THEN "loop" ELSE "returned"
                /\ UNCHANGED pc
    /\ crawled_rpids' = crawled_rpids \cup rpid_set(all_comments')
    /\ UNCHANGED <<cfgvars, driver, sort, mvars>>
    /\ UNCHANGED <<popularity_comments, popularity_end_reason, time_comments,
                   iteration_count, all_popularity_comments, all_time_comments,
                   popularity_continue, time_continue, popularity_rpid_history,
                   time_rpid_history, popularity_duplicate_rates, time_duplicate_rates,
                   merged_comments, duplicate_comments>>

(***************************************************************************)
(* Comprehensive mode: crawl_comprehensive_mode_comments and its caller    *)
(***************************************************************************)
OrchUnchangedButPc ==
    UNCHANGED <<popularity_comments, popularity_end_reason, time_comments,
                iteration_count, all_popularity_comments, all_time_comments,
                popularity_continue, time_continue, popularity_rpid_history,
                time_rpid_history, popularity_duplicate_rates, time_duplicate_rates,
                merged_comments, duplicate_comments>>

IterUnchanged ==
    UNCHANGED <<iteration_count, all_popularity_comments, all_time_comments,
                popularity_continue, time_continue, popularity_rpid_history,
                time_rpid_history, popularity_duplicate_rates, time_duplicate_rates>>

ObsUnchangedByCaller ==
    UNCHANGED <<ban_answered, requests_after_ban, time_requests, crawled_rpids>>

\* a driver has returned to its caller: its locals are gone
DriverIdle ==
    /\ driver' = "none"
    /\ dpc' = "idle"
    /\ page_count' = 0
    /\ next_offset' = NoOffset
    /\ all_comments' = <<>>
    /\ end_reason' = REASON_UNKNOWN
    /\ pass_log' = <<>>
    /\ UNCHANGED <<sort, time_passes, popularity_passes>>

StartComprehensive ==
    /\ mode = "comprehensive" /\ pc = "start"
    /\ CallDriver("with_reason", 1)
    /\ pc' = "popularity"
    /\ OrchUnchangedButPc
    /\ ObsUnchangedByCaller
    /\ UNCHANGED <<cfgvars, now, mvars>>

\* phase three of crawl_comprehensive_mode_comments: (merged, duplicates)
comprehensive_merge(popularity, time) ==
    IF time # <<>>
    THEN LET m == merge_and_deduplicate_comments(popularity, time) IN
         [merged |-> m.final_comments, duplicates |-> m.all_duplicates]
    ELSE [merged |-> popularity, duplicates |-> <<>>]

ComprehensiveAfterPopularity ==
    /\ mode = "comprehensive" /\ pc = "popularity" /\ dpc = "returned"
    /\ popularity_comments' = all_comments
    /\ popularity_end_reason' = end_reason
    /\ IF need_time_crawl(end_reason)
       THEN /\ CallDriver("with_reason", 0)
            /\ pc' = "time"
            /\ UNCHANGED <<time_comments, merged_comments, duplicate_comments>>
       ELSE LET m == comprehensive_merge(all_comments, <<>>) IN
            /\ time_comments' = <<>>
            /\ merged_comments' = m.merged
            /\ duplicate_comments' = m.duplicates
            /\ pc' = "done"
            /\ DriverIdle
    /\ IterUnchanged
    /\ ObsUnchangedByCaller
    /\ UNCHANGED <<cfgvars, now, mvars>>

ComprehensiveAfterTime ==
    /\ mode = "comprehensive" /\ pc = "time" /\ dpc = "returned"
    /\ time_comments' = all_comments
    /\ LET m == comprehensive_merge(popularity_comments, all_comments) IN
        /\ merged_comments' = m.merged
        /\ duplicate_comments' = m.duplicates
    /\ pc' = "done"
    /\ DriverIdle
    /\ IterUnchanged
    /\ ObsUnchangedByCaller
    /\ UNCHANGED <<cfgvars, now, mvars, popularity_comments, popularity_end_reason>>

(***************************************************************************)
(* Test mode and the argv path of __main__                                 *)
(***************************************************************************)
StartTest ==
    /\ mode = "test" /\ pc = "start"
    /\ CallDriver("test_mode", sort)
    /\ pc' = "test"
    /\ OrchUnchangedButPc
    /\ ObsUnchangedByCaller
    /\ UNCHANGED <<cfgvars, now, mvars>>

\* __main__: process_and_organize_data(comments, ...) on the driver's list
TestDone ==
    /\ mode = "test" /\ pc = "test" /\ dpc = "returned"
    /\ merged_comments' = all_comments
    /\ pc' = "done"
    /\ DriverIdle
    /\ IterUnchanged
    /\ ObsUnchangedByCaller
    /\ UNCHANGED <<cfgvars, now, mvars, popularity_comments, popularity_end_reason,
                   time_comments, duplicate_comments>>

StartLegacy ==
    /\ mode = "legacy" /\ pc = "start"
    /\ CallDriver("crawl_all", sort)
    /\ pc' = "legacy"
    /\ OrchUnchangedButPc
    /\ ObsUnchangedByCaller
    /\ UNCHANGED <<cfgvars, now, mvars>>

\* crawl_all_comments: process_and_organize_data(all_comments, ...) after the loop
LegacyDone ==
    /\ mode = "legacy" /\ pc = "legacy" /\ dpc = "returned"
    /\ merged_comments' = all_comments
    /\ pc' = "done"
    /\ DriverIdle
    /\ IterUnchanged
    /\ ObsUnchangedByCaller
    /\ UNCHANGED <<cfgvars, now, mvars, popularity_comments, popularity_end_reason,
                   time_comments, duplicate_comments>>

(***************************************************************************)
(* Iteration mode: what both strategies do after their loop                *)
(***************************************************************************)
\* an accumulator that loses the pass
extend_nothing(list, comments) == list

\* all_popularity_comments.extend(popularity_comments), and the like
extend(list, comments) == list \o comments

RECURSIVE seen_again_from(_, _)
seen_again_from(comments, i) ==
    IF i > Len(comments) THEN <<>>
    ELSE IF \E j \in 1..(i - 1) : comments[j].rpid = comments[i].rpid
         THEN <<comments[i]>> \o seen_again_from(comments, i + 1)
         ELSE seen_again_from(comments, i + 1)

\* the "重复评论列表" both strategies rebuild after the merge: every comment
\* of all_popularity_comments + all_time_comments whose rpid was seen before
seen_again(comments) == seen_again_from(comments, 1)

\* the statements after the loop: merge, rebuilt duplicate list
IterationFinish(all_pop, all_time) ==
    LET m == perform_iteration_deduplication(all_pop, all_time) IN
    /\ merged_comments' = m.final_comments
    /\ duplicate_comments' = seen_again(all_pop \o all_time)
    /\ pc' = "done"

(***************************************************************************)
(* Time-boxed strategy: crawl_time_iteration                               *)
(***************************************************************************)
\* time.sleep(2) between rounds
RoundPause == 2

\* a deadline test that never fires
deadline_never_reached(t, deadline) == FALSE

\* `if datetime.now() >= end_time:` after a pass
deadline_reached(t, deadline) == t >= deadline

StartTimeIteration ==
    /\ mode = "iter_time" /\ pc = "start"
    /\ pc' = "time_loop"
    /\ OrchUnchangedButPc
    /\ UNCHANGED <<cfgvars, now, drvvars, obsvars, mvars>>

\* `while datetime.now() < end_time:` entered
TimeIterRound ==
    /\ mode = "iter_time" /\ pc = "time_loop"
    /\ now < end_time
    /\ iteration_count < MaxRounds
    /\ iteration_count' = iteration_count + 1
    /\ CallDriver("with_reason", 1)
    /\ pc' = "iter_popularity"
    /\ ObsUnchangedByCaller
    /\ UNCHANGED <<cfgvars, now, mvars, popularity_comments, popularity_end_reason,
                   time_comments, all_popularity_comments, all_time_comments,
                   popularity_continue, time_continue, popularity_rpid_history,
                   time_rpid_history, popularity_duplicate_rates, time_duplicate_rates,
                   merged_comments, duplicate_comments>>

\* `while datetime.now() < end_time:` left at its head
TimeIterDeadline ==
    /\ mode = "iter_time" /\ pc = "time_loop"
    /\ now >= end_time
    /\ IterationFinish(all_popularity_comments, all_time_comments)
    /\ UNCHANGED <<cfgvars, now, drvvars, obsvars, mvars, popularity_comments,
                   popularity_end_reason, time_comments, iteration_count,
                   all_popularity_comments, all_time_comments, popularity_continue,
                   time_continue, popularity_rpid_history, time_rpid_history,
                   popularity_duplicate_rates, time_duplicate_rates>>

TimeIterAfterPopularity ==
    /\ mode = "iter_time" /\ pc = "iter_popularity" /\ dpc = "returned"
    /\ all_popularity_comments' = extend(all_popularity_comments, all_comments)
    /\ IF deadline_reached(now, end_time)
       THEN /\ IterationFinish(extend(all_popularity_comments, all_comments), all_time_comments)
            /\ DriverIdle
       ELSE /\ CallDriver("with_reason", 0)
            /\ pc' = "iter_time"
            /\ UNCHANGED <<merged_comments, duplicate_comments>>
    /\ ObsUnchangedByCaller
    /\ UNCHANGED <<cfgvars, now, mvars, popularity_comments, popularity_end_reason,
                   time_comments, iteration_count,
                   all_time_comments, popularity_continue, time_continue,
                   popularity_rpid_history, time_rpid_history,
                   popularity_duplicate_rates, time_duplicate_rates>>

TimeIterAfterTime ==
    /\ mode = "iter_time" /\ pc = "iter_time" /\ dpc = "returned"
    /\ all_time_comments' = extend(all_time_comments, all_comments)
    /\ DriverIdle
    /\ IF deadline_reached(now, end_time)
       THEN /\ IterationFinish(all_popularity_comments, extend(all_time_comments, all_comments))
            /\ UNCHANGED now
       ELSE /\ now' = Min(now + RoundPause, MaxClock)
            /\ pc' = "time_loop"
            /\ UNCHANGED <<merged_comments, duplicate_comments>>
    /\ ObsUnchangedByCaller
    /\ UNCHANGED <<cfgvars, mvars, popularity_comments, popularity_end_reason,
                   time_comments,
                   iteration_count, all_popularity_comments, popularity_continue,
                   time_continue, popularity_rpid_history, time_rpid_history,
                   popularity_duplicate_rates, time_duplicate_rates>>

(***************************************************************************)
(* Overlap-ratio strategy: crawl_duplicate_rate_iteration                  *)
(***************************************************************************)
StartRateIteration ==
    /\ mode = "iter_rate" /\ pc = "start"
    /\ pc' = "rate_loop"
    /\ OrchUnchangedButPc
    /\ UNCHANGED <<cfgvars, now, drvvars, obsvars, mvars>>

\* `while popularity_continue or time_continue:` entered; the first pass of
\* the round is the popularity one unless that ordering is halted
RateIterRound ==
    /\ mode = "iter_rate" /\ pc = "rate_loop"
    /\ popularity_continue \/ time_continue
    /\ iteration_count < MaxRounds
    /\ iteration_count' = iteration_count + 1
    /\ IF popularity_continue
       THEN CallDriver("with_reason", 1) /\ pc' = "rate_popularity"
       ELSE CallDriver("with_reason", 0) /\ pc' = "rate_time"
    /\ ObsUnchangedByCaller
    /\ UNCHANGED <<cfgvars, now, mvars, popularity_comments, popularity_end_reason,
                   time_comments, all_popularity_comments, all_time_comments,
                   popularity_continue, time_continue, popularity_rpid_history,
                   time_rpid_history, popularity_duplicate_rates, time_duplicate_rates,
                   merged_comments, duplicate_comments>>

\* a history that forgets the pass
history_after_forgetting(history, comments) == history

\* the history after a pass that returned comments
history_after(history, comments) == Append(history, rpid_set(comments))

\* the rate appended for a pass, if the history holds two passes
rates_after(rates, history) ==
    IF Len(history) >= 2
    THEN Append(rates, calculate_duplicate_rate(history[Len(history) - 1], history[Len(history)]))
    ELSE rates

\* the continue flag no overlap ratio ever clears
continue_after_ignoring_threshold(flag, history, threshold) == flag

\* a continue flag that every pass clears
continue_after_always_halts(flag, history, threshold) == FALSE

\* the ordering's continue flag after a pass that returned comments
continue_after(flag, history, threshold) ==
    IF Len(history) >= 2
       /\ rate_reaches(history[Len(history) - 1], history[Len(history)], threshold)
    THEN FALSE
    ELSE flag

\* the end of a round: break and finish, or pause and loop
RateRoundEnd(pop_cont, time_cont, all_pop, all_time) ==
    IF ~pop_cont /\ ~time_cont
    THEN /\ IterationFinish(all_pop, all_time)
         /\ UNCHANGED now
    ELSE /\ now' = Min(now + RoundPause, MaxClock)
         /\ pc' = "rate_loop"
         /\ UNCHANGED <<merged_comments, duplicate_comments>>

RateIterAfterPopularity ==
    /\ mode = "iter_rate" /\ pc = "rate_popularity" /\ dpc = "returned"
    /\ LET hist == IF all_comments # <<>>
                   THEN history_after(popularity_rpid_history, all_comments)
                   ELSE popularity_rpid_history
           cont == IF all_comments # <<>>
                   THEN continue_after(popularity_continue, hist, popularity_threshold)
                   ELSE FALSE
           all_pop == extend(all_popularity_comments, all_comments)
       IN
       /\ popularity_rpid_history' = hist
       /\ popularity_duplicate_rates' =
            IF all_comments # <<>> THEN rates_after(popularity_duplicate_rates, hist)
            ELSE popularity_duplicate_rates
       /\ popularity_continue' = cont
       /\ all_popularity_comments' = all_pop
       /\ IF time_continue
          THEN /\ CallDriver("with_reason", 0)
               /\ pc' = "rate_time"
               /\ UNCHANGED <<now, merged_comments, duplicate_comments>>
          ELSE /\ RateRoundEnd(cont, time_continue, all_pop, all_time_comments)
               /\ DriverIdle
    /\ ObsUnchangedByCaller
    /\ UNCHANGED <<cfgvars, mvars, popularity_comments, popularity_end_reason,
                   time_comments, iteration_count, all_time_comments,
                   time_continue, time_rpid_history, time_duplicate_rates>>

RateIterAfterTime ==
    /\ mode = "iter_rate" /\ pc = "rate_time" /\ dpc = "returned"
    /\ LET hist == IF all_comments # <<>>
                   THEN history_after(time_rpid_history, all_comments)
                   ELSE time_rpid_history
           cont == IF all_comments # <<>>
                   THEN continue_after(time_continue, hist, time_threshold)
                   ELSE FALSE
           all_time == extend(all_time_comments, all_comments)
       IN
       /\ time_rpid_history' = hist
       /\ time_duplicate_rates' =
            IF all_comments # <<>> THEN rates_after(time_duplicate_rates, hist)
            ELSE time_duplicate_rates
       /\ time_continue' = cont
       /\ all_time_comments' = all_time
       /\ RateRoundEnd(popularity_continue, cont, all_popularity_comments, all_time)
       /\ DriverIdle
    /\ ObsUnchangedByCaller
    /\ UNCHANGED <<cfgvars, mvars, popularity_comments, popularity_end_reason,
                   time_comments,
                   iteration_count, all_popularity_comments, popularity_continue,
                   popularity_rpid_history, popularity_duplicate_rates>>

(***************************************************************************)
(* Spec: one run of the program in any of its modes                        *)
(***************************************************************************)
Next ==
    \/ StartComprehensive
    \/ StartTest
    \/ StartLegacy
    \/ StartTimeIteration
    \/ StartRateIteration
    \/ WithReasonStep
    \/ TestModeStep
    \/ CrawlAllStep
    \/ ComprehensiveAfterPopularity
    \/ ComprehensiveAfterTime
    \/ TestDone
    \/ LegacyDone
    \/ TimeIterRound
    \/ TimeIterDeadline
    \/ TimeIterAfterPopularity
    \/ TimeIterAfterTime
    \/ RateIterRound
    \/ RateIterAfterPopularity
    \/ RateIterAfterTime

Spec == Init /\ [][Next]_vars

(***************************************************************************)
(* SpecMerge: the merge applied to arbitrary bounded passes                *)
(***************************************************************************)
CrawlIdle ==
    /\ mode = "merge_only"
    /\ test_mode = FALSE
    /\ max_pages = 0
    /\ popularity_threshold = 0
    /\ time_threshold = 0
    /\ end_time = 0
    /\ pc = "start"
    /\ now = 1
    /\ popularity_comments = <<>>
    /\ popularity_end_reason = REASON_UNKNOWN
    /\ time_comments = <<>>
    /\ iteration_count = 0
    /\ all_popularity_comments = <<>>
    /\ all_time_comments = <<>>
    /\ popularity_continue = TRUE
    /\ time_continue = TRUE
    /\ popularity_rpid_history = <<>>
    /\ time_rpid_history = <<>>
    /\ popularity_duplicate_rates = <<>>
    /\ time_duplicate_rates = <<>>
    /\ merged_comments = <<>>
    /\ duplicate_comments = <<>>
    /\ driver = "none"
    /\ sort = 1
    /\ page_count = 0
    /\ next_offset = NoOffset
    /\ all_comments = <<>>
    /\ end_reason = REASON_UNKNOWN
    /\ dpc = "idle"
    /\ pass_log = <<>>
    /\ ban_answered = FALSE
    /\ requests_after_ban = 0
    /\ crawled_rpids = {}
    /\ time_passes = 0
    /\ popularity_passes = 0
    /\ time_requests = 0

MergeInit ==
    /\ CrawlIdle
    /\ in_popularity \in SeqsUpTo(InputComments, MaxPopLen)
    /\ in_time \in SeqsUpTo(InputComments, MaxTimeLen)
    /\ merge_fn \in {"comprehensive", "iteration"}
    /\ merge_out = NotRun
    /\ call = NoCall
    /\ ret = NotRun

ApplyMerge ==
    /\ merge_out = NotRun
    /\ merge_out' =
         [run |-> TRUE,
          res |-> IF merge_fn = "comprehensive"
                  THEN merge_and_deduplicate_comments(in_popularity, in_time)
                  ELSE perform_iteration_deduplication(in_popularity, in_time)]
    /\ UNCHANGED <<in_popularity, in_time, merge_fn, call, ret>>
    /\ UNCHANGED <<cfgvars, orchvars, now, drvvars, obsvars>>

MergeNext == ApplyMerge

SpecMerge == MergeInit /\ [][MergeNext]_vars

(***************************************************************************)
(* SpecRate: calculate_duplicate_rate applied to arbitrary bounded sets    *)
(***************************************************************************)
\* identities the two passes of a comparison are drawn from
MaxIds == 4
Ids == 1..MaxIds

RateCalls ==
    {[fn |-> "calculate_duplicate_rate", prev_rpids |-> a, current_rpids |-> b] :
        a \in SUBSET Ids, b \in SUBSET Ids}

RateInit ==
    /\ CrawlIdle
    /\ in_popularity = <<>>
    /\ in_time = <<>>
    /\ merge_fn = "none"
    /\ merge_out = NotRun
    /\ call \in RateCalls
    /\ ret = NotRun

ApplyRate ==
    /\ call.fn = "calculate_duplicate_rate"
    /\ ret = NotRun
    /\ ret' = [run |-> TRUE,
               val |-> calculate_duplicate_rate(call.prev_rpids, call.current_rpids)]
    /\ UNCHANGED <<in_popularity, in_time, merge_fn, merge_out, call>>
    /\ UNCHANGED <<cfgvars, orchvars, now, drvvars, obsvars>>

RateNext == ApplyRate

SpecRate == RateInit /\ [][RateNext]_vars

(***************************************************************************)
(* SpecFlatten: process_comments_page applied to one page of up to two     *)
(* top-level entries and the reply threads the platform holds for them     *)
(***************************************************************************)
\* replies a thread can hold, and replies the page can carry inline
MaxThread == 4
MaxInline == 3

\* the j-th reply written under root: publish times grow with j
RawSubReply(root, j) == [rpid |-> 10 * root + j, ctime |-> j, like |-> 0]

\* the thread the endpoint holds, listed oldest first or newest first
Threads(root) ==
    UNION {{[j \in 1..m |-> RawSubReply(root, j)],
            [j \in 1..m |-> RawSubReply(root, m + 1 - j)]} : m \in 0..MaxThread}

\* the inline sample: distinct replies of the thread, in any order
InlineSamples(root) ==
    {[j \in 1..Len(q) |-> RawSubReply(root, q[j])] :
        q \in {p \in SeqsUpTo(1..MaxInline, MaxInline) :
                  \A a, b \in 1..Len(p) : a # b => p[a] # p[b]}}

HintTexts ==
    {<<>>, <<OtherText>>, <<HintPrefix, HintMarker>>}
    \cup {<<HintPrefix, Digits(n), HintMarker>> : n \in 0..MaxThread}
    \cup {<<Digits(n), HintMarker>> : n \in 1..MaxThread}

RawEntry(rpid, text, replies, rcount) ==
    [rpid |-> rpid, like |-> 0, ctime |-> 1, sub_reply_entry_text |-> text,
     replies |-> replies, rcount |-> rcount]

\* the entries of root, with any hint text, inline sample and reply count
Entries(root) ==
    {RawEntry(root, text, replies, rcount) :
        text \in HintTexts, replies \in InlineSamples(root), rcount \in 0..MaxThread}

\* a second entry: no replies, one inline reply, or one reply to fetch
SecondEntries ==
    {RawEntry(2, <<>>, <<>>, 0),
     RawEntry(2, <<>>, <<RawSubReply(2, 1)>>, 1),
     RawEntry(2, <<>>, <<>>, 1)}

\* how a reply-thread request fails: no answer, an HTTP error status, an
\* answer with code # 0, an answer that is not the expected JSON structure
SubReplyFaults == {"network", "http_412", "api_code", "malformed"}

\* the endpoint's state for one thread; fail_at = 0: no request fails
ThreadSources(root) ==
    {[thread |-> th, fail_at |-> 0, fault |-> "none"] : th \in Threads(root)}
    \cup {[thread |-> th, fail_at |-> pn, fault |-> f] :
            th \in Threads(root), pn \in 1..2, f \in SubReplyFaults}

SecondSource == [thread |-> <<RawSubReply(2, 1)>>, fail_at |-> 0, fault |-> "none"]

\* the calls whose first entry is root
FlattenCalls(root) ==
    {[fn |-> "process_comments_page", replies |-> <<e>> \o rest,
      source |-> <<src, SecondSource>>] :
        e \in Entries(root),
        rest \in {<<>>} \cup {<<e2>> : e2 \in SecondEntries},
        src \in ThreadSources(root)}

FlattenInit ==
    /\ CrawlIdle
    /\ in_popularity = <<>>
    /\ in_time = <<>>
    /\ merge_fn = "none"
    /\ merge_out = NotRun
    /\ call \in FlattenCalls(1)
    /\ ret = NotRun

ApplyFlatten ==
    /\ call.fn = "process_comments_page"
    /\ ret = NotRun
    /\ ret' = [run |-> TRUE,
               val |-> process_comments_page(call.replies, 1, call.source),
               requests |-> sub_reply_requests(call.replies, 1, call.source)]
    /\ UNCHANGED <<in_popularity, in_time, merge_fn, merge_out, call>>
    /\ UNCHANGED <<cfgvars, orchvars, now, drvvars, obsvars>>

FlattenNext == ApplyFlatten

SpecFlatten == FlattenInit /\ [][FlattenNext]_vars

(***************************************************************************)
(* The merge on objects: the records of the passes are dictionaries the    *)
(* lists refer to; heap[ref] is the dictionary of the object ref           *)
(***************************************************************************)
\* comment['重复来源'] = comment_type written into the object itself
annotate_in_place(heap, ref, comment_type) ==
    [heap |-> [heap EXCEPT ![ref] = Annotate(heap[ref], comment_type)], ref |-> ref]

\* comment.copy() followed by the two annotations of the copy
annotated_copy(heap, ref, comment_type) ==
    [heap |-> Append(heap, Annotate(heap[ref], comment_type)), ref |-> Len(heap) + 1]

\* the place of rpid among the values of rpid_to_comment, 0 when absent
RefIndex(heap, kept, rpid) ==
    IF \E j \in 1..Len(kept) : heap[kept[j]].rpid = rpid
    THEN CHOOSE j \in 1..Len(kept) : heap[kept[j]].rpid = rpid
    ELSE 0

\* one iteration of `for comment in comments` in deduplicate_by_rpid
dedup_step_on_heap(acc, ref, comment_type) ==
    LET comment == acc.heap[ref]
        j == RefIndex(acc.heap, acc.kept, comment.rpid)
    IN  IF comment.rpid = 0 THEN acc
        ELSE IF j = 0 THEN [acc EXCEPT !.kept = Append(@, ref)]
        ELSE IF extract_crawl_time_from_filename(comment)
                  > extract_crawl_time_from_filename(acc.heap[acc.kept[j]])
             THEN LET old_comment == annotated_copy(acc.heap, acc.kept[j], comment_type)
                  IN  [heap |-> old_comment.heap,
                       kept |-> [acc.kept EXCEPT ![j] = ref],
                       dups |-> Append(acc.dups, old_comment.ref)]
             ELSE LET duplicate_comment == annotated_copy(acc.heap, ref, comment_type)
                  IN  [heap |-> duplicate_comment.heap,
                       kept |-> acc.kept,
                       dups |-> Append(acc.dups, duplicate_comment.ref)]

RECURSIVE dedup_loop_on_heap(_, _, _, _)
dedup_loop_on_heap(comments, i, acc, comment_type) ==
    IF i > Len(comments) THEN acc
    ELSE dedup_loop_on_heap(comments, i + 1,
                            dedup_step_on_heap(acc, comments[i], comment_type), comment_type)

\* deduplicate_by_rpid on a list of references
deduplicate_by_rpid_on_heap(heap, comments, comment_type) ==
    dedup_loop_on_heap(comments, 1, [heap |-> heap, kept |-> <<>>, dups |-> <<>>],
                       comment_type)

\* the body of both merge functions on lists of references
merge_on_heap(heap, popularity, time, pop_label, time_label, merge_label) ==
    LET p == deduplicate_by_rpid_on_heap(heap, popularity, pop_label)
        t == deduplicate_by_rpid_on_heap(p.heap, time, time_label)
        m == deduplicate_by_rpid_on_heap(t.heap, p.kept \o t.kept, merge_label)
    IN  [heap           |-> m.heap,
         final_comments |-> m.kept,
         all_duplicates |-> p.dups \o t.dups \o m.dups]

\* the dictionaries a list of references refers to
deref(heap, refs) == [k \in 1..Len(refs) |-> heap[refs[k]]]

(***************************************************************************)
(* SpecMergeObjects: the merge applied to two passes of freshly created    *)
(* records                                                                 *)
(***************************************************************************)
\* the references of the two passes: the popularity pass's records are the
\* objects 1..Len(in_popularity), the chronological pass's the next ones
popularity_refs == [k \in 1..Len(in_popularity) |-> k]
time_refs == [k \in 1..Len(in_time) |-> Len(in_popularity) + k]

MergeObjectsInit ==
    /\ CrawlIdle
    /\ in_popularity \in SeqsUpTo(InputComments, MaxPopLen)
    /\ in_time \in SeqsUpTo(InputComments, MaxTimeLen)
    /\ merge_fn \in {"comprehensive", "iteration"}
    /\ merge_out = NotRun
    /\ call = [fn |-> "merge_objects"]
    /\ ret = NotRun

ApplyMergeObjects ==
    /\ call.fn = "merge_objects"
    /\ ret = NotRun
    /\ ret' = [run |-> TRUE,
               res |-> IF merge_fn = "comprehensive"
                       THEN merge_on_heap(in_popularity \o in_time, popularity_refs,
                                          time_refs, "pop_sort", "time_sort", "merge")
                       ELSE merge_on_heap(in_popularity \o in_time, popularity_refs,
                                          time_refs, "pop_crawl", "time_crawl",
                                          "final_merge")]
    /\ UNCHANGED <<in_popularity, in_time, merge_fn, merge_out, call>>
    /\ UNCHANGED <<cfgvars, orchvars, now, drvvars, obsvars>>

MergeObjectsNext == ApplyMergeObjects

SpecMergeObjects == MergeObjectsInit /\ [][MergeObjectsNext]_vars

(***************************************************************************)
(* Export: sort_comments_by_popularity applied to the merged set           *)
(***************************************************************************)
\* the second loop of sort_comments_by_popularity: a top-level record opens
\* a group, a reply record joins the group that is open; replies met before
\* any top-level record are left out
RECURSIVE group_by_position(_, _)
group_by_position(comments, groups) ==
    IF comments = <<>> THEN groups
    ELSE LET comment == Head(comments) IN
         IF comment.kind = MainComment
         THEN group_by_position(Tail(comments),
                                Append(groups, [main |-> comment, subs |-> <<>>]))
         ELSE IF groups = <<>>
         THEN group_by_position(Tail(comments), groups)
         ELSE group_by_position(Tail(comments),
                                [groups EXCEPT ![Len(groups)].subs = Append(@, comment)])

\* the timestamp parsed from '发布时间': <<0, ts>>, or <<1, 0>> for
\* float('inf') when the record has '未知时间' (its ctime was 0)
timestamp(comment) == IF comment.ts = 0 THEN <<1, 0>> ELSE <<0, comment.ts>>

\* sort_key_main of sort_comments_by_popularity: (-likes, timestamp)
sort_key_main(comment_group) ==
    <<0 - comment_group.main.like>> \o timestamp(comment_group.main)

\* sort_key_main of sort_comments_by_time: timestamp
sort_key_main_by_time(comment_group) == <<0>> \o timestamp(comment_group.main)

\* sort_key_sub: the publish time
sort_key_sub(comment) == <<0>> \o timestamp(comment)

\* tuple comparison k1 < k2
key_less(k1, k2) ==
    \/ k1[1] < k2[1]
    \/ k1[1] = k2[1] /\ k1[2] < k2[2]
    \/ k1[1] = k2[1] /\ k1[2] = k2[2] /\ k1[3] < k2[3]

\* list.sort(key=...) is stable: an element goes behind the elements whose
\* key is not greater; keys[i] is the key of list[i]
RECURSIVE sort_insert(_, _, _, _)
sort_insert(sorted, keys, x, k) ==
    IF sorted = <<>> THEN [list |-> <<x>>, keys |-> <<k>>]
    ELSE IF key_less(k, keys[Len(keys)])
    THEN LET rest == sort_insert(SubSeq(sorted, 1, Len(sorted) - 1),
                                 SubSeq(keys, 1, Len(keys) - 1), x, k)
         IN  [list |-> Append(rest.list, sorted[Len(sorted)]),
              keys |-> Append(rest.keys, keys[Len(keys)])]
    ELSE [list |-> Append(sorted, x), keys |-> Append(keys, k)]

RECURSIVE sort_loop(_, _, _, _)
sort_loop(list, keys, i, acc) ==
    IF i > Len(list) THEN acc.list
    ELSE sort_loop(list, keys, i + 1, sort_insert(acc.list, acc.keys, list[i], keys[i]))

\* main_comments.sort(key=sort_key_main)
sort_main_comments(main_comments) ==
    sort_loop(main_comments,
              [i \in 1..Len(main_comments) |-> sort_key_main(main_comments[i])],
              1, [list |-> <<>>, keys |-> <<>>])

\* main_comments.sort(key=sort_key_main) in sort_comments_by_time
sort_main_comments_by_time(main_comments) ==
    sort_loop(main_comments,
              [i \in 1..Len(main_comments) |-> sort_key_main_by_time(main_comments[i])],
              1, [list |-> <<>>, keys |-> <<>>])

\* sub_comments.sort(key=sort_key_sub)
sort_sub_comments(subs) ==
    sort_loop(subs, [i \in 1..Len(subs) |-> sort_key_sub(subs[i])],
              1, [list |-> <<>>, keys |-> <<>>])

\* the rows of one group: '主楼序号' main_index and '楼中楼序号' 0 for the
\* top-level record, '' (here 0) and 1, 2, ... for its replies
group_rows(comment_group, main_index) ==
    LET subs == sort_sub_comments(comment_group.subs) IN
    <<[rpid |-> comment_group.main.rpid, kind |-> comment_group.main.kind,
       like |-> comment_group.main.like, ts |-> comment_group.main.ts,
       main_index |-> main_index, sub_index |-> 0]>>
      \o [j \in 1..Len(subs) |->
            [rpid |-> subs[j].rpid, kind |-> subs[j].kind,
             like |-> subs[j].like, ts |-> subs[j].ts,
             main_index |-> 0, sub_index |-> j]]

RECURSIVE number_groups(_, _)
number_groups(main_comments, main_index) ==
    IF main_index > Len(main_comments) THEN <<>>
    ELSE group_rows(main_comments[main_index], main_index)
            \o number_groups(main_comments, main_index + 1)

sort_comments_by_popularity(comments) ==
    IF comments = <<>> THEN <<>>
    ELSE number_groups(sort_main_comments(group_by_position(comments, <<>>)), 1)

\* sort_comments_by_time: the same grouping loop and renumbering
sort_comments_by_time(comments) ==
    IF comments = <<>> THEN <<>>
    ELSE number_groups(sort_main_comments_by_time(group_by_position(comments, <<>>)), 1)

(***************************************************************************)
(* SpecExport: two passes over two threads, merged and sorted              *)
(***************************************************************************)
\* the records of one thread as a pass holds them: the top-level record and
\* any of the thread's two replies behind it, in publish order
ThreadBlocks(root, crawl) ==
    {<<[Comment(root, crawl, like) EXCEPT !.ts = root]>> \o subs :
        like \in Likes,
        subs \in {<<>>} \cup
                 {[j \in 1..Len(q) |->
                     [Comment(10 * root + q[j], crawl, 0) EXCEPT !.ts = q[j], !.kind = SubReply]] :
                   q \in {<<1>>, <<2>>, <<1, 2>>}}}

\* a pass crawled at crawl: no thread, one thread, or both in either order
ExportPasses(crawl) ==
    {<<>>} \cup ThreadBlocks(1, crawl) \cup ThreadBlocks(2, crawl)
      \cup {a \o b : a \in ThreadBlocks(1, crawl), b \in ThreadBlocks(2, crawl)}
      \cup {b \o a : a \in ThreadBlocks(1, crawl), b \in ThreadBlocks(2, crawl)}

ExportInit ==
    /\ CrawlIdle
    /\ \E c1, c2 \in {1, 2} :
          /\ in_popularity \in ExportPasses(c1)
          /\ in_time \in ExportPasses(c2)
    /\ merge_fn = "comprehensive"
    /\ merge_out = NotRun
    /\ call = [fn |-> "export"]
    /\ ret = NotRun

\* merge_and_deduplicate_comments, then process_and_organize_data's sort
ApplyExport ==
    /\ call.fn = "export"
    /\ ret = NotRun
    /\ LET res == merge_and_deduplicate_comments(in_popularity, in_time) IN
       /\ merge_out' = [run |-> TRUE, res |-> res]
       /\ ret' = [run |-> TRUE, val |-> sort_comments_by_popularity(res.final_comments)]
    /\ UNCHANGED <<in_popularity, in_time, merge_fn, call>>
    /\ UNCHANGED <<cfgvars, orchvars, now, drvvars, obsvars>>

ExportNext == ApplyExport

SpecExport == ExportInit /\ [][ExportNext]_vars

(***************************************************************************)
(* SpecSort: the two sort functions applied to a list of records           *)
(***************************************************************************)
\* records a list can hold
MaxSortLen == 4

\* two top-level comments with any like count and publish time (0: unknown)
\* and one reply of each with a known publish time
SortRecords ==
    {[Comment(r, 1, like) EXCEPT !.ts = ts] : r \in {1, 2}, like \in Likes, ts \in {0, 1, 2}}
      \cup {[Comment(10 * r + 1, 1, 0) EXCEPT !.ts = ts, !.kind = SubReply] :
              r \in {1, 2}, ts \in {1, 2}}

SortLists(n) == SeqsUpTo(SortRecords, n)

SortInit ==
    /\ CrawlIdle
    /\ in_popularity = <<>>
    /\ in_time = <<>>
    /\ merge_fn = "none"
    /\ merge_out = NotRun
    /\ call \in {[fn |-> f, comments |-> l] :
                   f \in {"sort_comments_by_popularity", "sort_comments_by_time"},
                   l \in SortLists(MaxSortLen)}
    /\ ret = NotRun

ApplySortByPopularity ==
    /\ call.fn = "sort_comments_by_popularity"
    /\ ret = NotRun
    /\ ret' = [run |-> TRUE, val |-> sort_comments_by_popularity(call.comments)]
    /\ UNCHANGED <<in_popularity, in_time, merge_fn, merge_out, call>>
    /\ UNCHANGED <<cfgvars, orchvars, now, drvvars, obsvars>>

ApplySortByTime ==
    /\ call.fn = "sort_comments_by_time"
    /\ ret = NotRun
    /\ ret' = [run |-> TRUE, val |-> sort_comments_by_time(call.comments)]
    /\ UNCHANGED <<in_popularity, in_time, merge_fn, merge_out, call>>
    /\ UNCHANGED <<cfgvars, orchvars, now, drvvars, obsvars>>

SortNext == ApplySortByPopularity \/ ApplySortByTime

SpecSort == SortInit /\ [][SortNext]_vars

(***************************************************************************)
(* SpecRaise: an exception raised in one of the frames of a run            *)
(***************************************************************************)
\* the frames an exception of a class can start in: the two request
\* exceptions in the fetcher, the others in any frame
raise_depths(m, exc) ==
    IF exc \in {"CookieBannedException", "RequestException"}
    THEN {Len(call_chain(m))}
    ELSE 1..Len(call_chain(m))

\* the orderings a mode runs passes in (1 popularity, 0 chronological)
pass_sorts(m) == IF m = "legacy" THEN {2, 3} ELSE {0, 1}

RaiseCalls ==
    UNION {{[fn |-> "raise", mode |-> m, sort |-> s, exc |-> e, depth |-> d] :
                s \in pass_sorts(m), d \in raise_depths(m, e)} :
            m \in Modes, e \in ExceptionClasses}

RaiseInit ==
    /\ CrawlIdle
    /\ in_popularity = <<>>
    /\ in_time = <<>>
    /\ merge_fn = "none"
    /\ merge_out = NotRun
    /\ call \in RaiseCalls
    /\ ret = NotRun

ApplyRaise ==
    /\ call.fn = "raise"
    /\ ret = NotRun
    /\ LET caught == unwind(SubSeq(call_chain(call.mode), 1, call.depth), call.exc)
       IN  ret' = [run |-> TRUE, caught |-> caught,
                   val |-> run_outcome(call.mode, caught)]
    /\ UNCHANGED <<in_popularity, in_time, merge_fn, merge_out, call>>
    /\ UNCHANGED <<cfgvars, orchvars, now, drvvars, obsvars>>

RaiseNext == ApplyRaise

SpecRaise == RaiseInit /\ [][RaiseNext]_vars

(***************************************************************************)
(* SpecSign: generate_w_rid applied to arbitrary bounded parameter maps    *)
(***************************************************************************)
\* items a parameter map can hold
MaxParams == 4

SignKeys == {"oid", "pn", "seek_rpid", "wts", "w_rid", "mode", "next"}
SignValues == {"1", "2"}

\* the dicts of up to n items over the keys
Dicts(n) ==
    {d \in SeqsUpTo([key : SignKeys, value : SignValues], n) :
        \A i, j \in 1..Len(d) : i # j => d[i].key # d[j].key}

SignInit ==
    /\ CrawlIdle
    /\ in_popularity = <<>>
    /\ in_time = <<>>
    /\ merge_fn = "none"
    /\ merge_out = NotRun
    /\ call \in {[fn |-> "generate_w_rid", params |-> d] : d \in Dicts(MaxParams)}
    /\ ret = NotRun

ApplySign ==
    /\ call.fn = "generate_w_rid"
    /\ ret = NotRun
    /\ ret' = [run |-> TRUE, val |-> generate_w_rid(call.params)]
    /\ UNCHANGED <<in_popularity, in_time, merge_fn, merge_out, call>>
    /\ UNCHANGED <<cfgvars, orchvars, now, drvvars, obsvars>>

SignNext == ApplySign

SpecSign == SignInit /\ [][SignNext]_vars

(***************************************************************************)
(* SpecCodec: the two conversions applied to every stable id and to        *)
(* display ids of every prefix                                             *)
(***************************************************************************)
\* prefixes of a display id: as written by aid_to_bvid, in lower case, wrong
BvPrefixes == {<<"B", "V", "1">>, <<"b", "v", "1">>, <<"B", "V", "2">>}

\* the display ids of a prefix: every body over the table's characters, and
\* one body with a character outside it
DisplayIds(prefixes) ==
    {prefix \o body : prefix \in prefixes, body \in [1..BV_LEN - 3 -> {"F", "c", "w"}]}
      \cup {prefix \o <<"F", "c", "w", "0", "F", "c", "w", "F", "c">> : prefix \in prefixes}
      \cup {<<"B", "V", "1", "F">>}

CodecInit ==
    /\ CrawlIdle
    /\ in_popularity = <<>>
    /\ in_time = <<>>
    /\ merge_fn = "none"
    /\ merge_out = NotRun
    /\ call \in {[fn |-> "aid_to_bvid", aid |-> n, bvid |-> <<>>] : n \in 0..MAX_AID}
                  \cup {[fn |-> "bvid_to_aid", aid |-> 0, bvid |-> id] :
                          id \in DisplayIds(BvPrefixes)}
    /\ ret = NotRun

\* aid_to_bvid(aid), and bvid_to_aid of its result
ApplyEncode ==
    /\ call.fn = "aid_to_bvid"
    /\ ret = NotRun
    /\ LET bv == aid_to_bvid(call.aid) IN
       ret' = [run |-> TRUE, bv |-> bv,
               av |-> IF bv.ok THEN bvid_to_aid(bv.bvid) ELSE NoAid]
    /\ UNCHANGED <<in_popularity, in_time, merge_fn, merge_out, call>>
    /\ UNCHANGED <<cfgvars, orchvars, now, drvvars, obsvars>>

\* bvid_to_aid(bvid), and aid_to_bvid of its result
ApplyDecode ==
    /\ call.fn = "bvid_to_aid"
    /\ ret = NotRun
    /\ LET av == bvid_to_aid(call.bvid) IN
       ret' = [run |-> TRUE, av |-> av,
               bv |-> IF av.ok THEN aid_to_bvid(av.aid) ELSE NoBvid]
    /\ UNCHANGED <<in_popularity, in_time, merge_fn, merge_out, call>>
    /\ UNCHANGED <<cfgvars, orchvars, now, drvvars, obsvars>>

CodecNext == ApplyEncode \/ ApplyDecode

SpecCodec == CodecInit /\ [][CodecNext]_vars

(***************************************************************************)
(* Properties of the crawl passes and of the orchestrators (Spec)          *)
(***************************************************************************)
\* outcomes of a request that was answered successfully
SuccessOutcomes == {"page", "page-end", "empty"}
\* outcomes of a request that failed transiently
TransientOutcomes == {"network-error", "http-error"}

LastOutcome == IF pass_log = <<>> THEN "none" ELSE pass_log[Len(pass_log)].out

unique_rpids(comments) ==
    \A i, j \in 1..Len(comments) : i # j => comments[i].rpid # comments[j].rpid

\* C1: in crawl_all_comments_with_reason and crawl_test_mode_comments, a
\* request answered 412 is the last request of its pass and the pass is left
\* by the ban exception, not by a return with an ordinary termination reason.
C1_BanEndsPassByException ==
    driver \in {"with_reason", "test_mode"} =>
        \A i \in 1..Len(pass_log) :
            pass_log[i].out = "http-412" =>
                /\ i = Len(pass_log)
                /\ Len(all_comments) <= (i - 1) * MaxPageLen
                /\ dpc = "raised"
                /\ end_reason = REASON_UNKNOWN

\* C2: in the comprehensive and in both iteration modes, no comment-page
\* request is issued after a comment-page request was answered 412.
C2_NoRequestAfterBan ==
    mode \in {"comprehensive", "iter_time", "iter_rate"} => requests_after_ban = 0

\* C3: in comprehensive mode no chronological pass is started before the
\* popularity pass has returned; once it has, a popularity pass that ended
\* with "exhausted" is followed by no chronological pass and no chronological
\* request, and one that ended with any other reason by exactly one
\* chronological pass.
C3_ExhaustionSkip ==
    mode = "comprehensive" =>
        IF pc \in {"start", "popularity"}
        THEN time_passes = 0 /\ time_requests = 0
        ELSE IF popularity_end_reason = REASON_EXHAUSTED
             THEN time_passes = 0 /\ time_requests = 0
             ELSE time_passes = 1

\* a comprehensive run finished whose popularity pass returned comments and
\* ended with "exhausted"
C3_Witness ==
    /\ mode = "comprehensive" /\ pc = "done"
    /\ popularity_end_reason = REASON_EXHAUSTED
    /\ popularity_comments # <<>>
    /\ time_passes = 0

\* C5: the list handed to process_and_organize_data holds each rpid at most
\* once, in every mode.
C5_FinalSetUniqueIdentity ==
    pc = "done" => unique_rpids(merged_comments)

\* C7: in every driver, a successful non-empty page whose cursor says is_end
\* is the last request of the pass, and the pass returns (with "exhausted"
\* where the driver returns a reason and is not cut short by its one-page
\* test switch).
C7_EndFlagEndsPass ==
    \A i \in 1..Len(pass_log) :
        pass_log[i].out = "page-end" =>
            /\ i = Len(pass_log)
            /\ dpc = "returned"
            /\ Len(all_comments) >= i
            /\ (driver # "crawl_all" /\ ~test_mode => end_reason = REASON_EXHAUSTED)

\* C8: a pass that returns "exhausted" made only successful requests, and
\* its last one was answered by an empty page or by a page with is_end set.
C8_ExhaustedOnlyAtEnd ==
    dpc = "returned" /\ end_reason = REASON_EXHAUSTED =>
        /\ \A i \in 1..Len(pass_log) : pass_log[i].out \in SuccessOutcomes
        /\ LastOutcome \in {"empty", "page-end"}
        /\ \A i \in 1..Len(pass_log) : pass_log[i].pn = i

\* a pass of several pages that returned "exhausted"
C8_Witness ==
    /\ dpc = "returned" /\ end_reason = REASON_EXHAUSTED
    /\ Len(pass_log) >= 2
    /\ all_comments # <<>>

\* what the get_bilibili_comments of a successful empty page looks like
EmptyPageResult ==
    [tag |-> "result", code |-> 0, replies |-> <<>>, is_end |-> TRUE, next |-> NoOffset]

\* the reason the running driver gives to a successful empty page
EmptyPageReason ==
    IF driver = "test_mode"
    THEN test_mode_break(EmptyPageResult, page_count, max_pages)
    ELSE with_reason_break(EmptyPageResult, test_mode)

\* C9: a pass of crawl_all_comments_with_reason or crawl_test_mode_comments
\* whose last request failed transiently returns a reason other than the one
\* of a successful empty page, asked for no page twice and returns the
\* records of the pages before.
C9_FetchFailedDistinct ==
    dpc = "returned" /\ driver \in {"with_reason", "test_mode"}
        /\ LastOutcome \in TransientOutcomes =>
        /\ end_reason # EmptyPageReason
        /\ \A i \in 1..Len(pass_log) : pass_log[i].pn = i
        /\ Len(all_comments) >= Len(pass_log) - 1

\* C10: a pass of crawl_all_comments_with_reason or crawl_test_mode_comments
\* whose last request was answered by a successful empty page returns
\* "exhausted".
C10_EmptyPageExhausted ==
    dpc = "returned" /\ driver \in {"with_reason", "test_mode"}
        /\ LastOutcome = "empty" =>
        end_reason = REASON_EXHAUSTED

(***************************************************************************)
(* Properties of the merge (SpecMerge)                                     *)
(***************************************************************************)
\* the records in the order the merge meets them: pass order, then the
\* order within the pass
merge_input == in_popularity \o in_time

\* a duplicate-list entry without its annotation
without_source(comment) == [comment EXCEPT !.src = ""]

in_duplicates(comment) ==
    \E k \in 1..Len(merge_out.res.all_duplicates) :
        without_source(merge_out.res.all_duplicates[k]) = comment

\* the merged records that carry rpid
kept_for(rpid) ==
    {merge_out.res.final_comments[k] :
        k \in {n \in 1..Len(merge_out.res.final_comments) :
                 merge_out.res.final_comments[n].rpid = rpid}}

\* the first / the last of the records of rpid whose key is the largest
first_latest(rpid) ==
    CHOOSE i \in 1..Len(merge_input) :
        /\ merge_input[i].rpid = rpid
        /\ \A j \in 1..Len(merge_input) : merge_input[j].rpid = rpid =>
             \/ extract_crawl_time_from_filename(merge_input[j])
                  < extract_crawl_time_from_filename(merge_input[i])
             \/ /\ extract_crawl_time_from_filename(merge_input[j])
                     = extract_crawl_time_from_filename(merge_input[i])
                /\ j >= i

last_latest(rpid) ==
    CHOOSE i \in 1..Len(merge_input) :
        /\ merge_input[i].rpid = rpid
        /\ \A j \in 1..Len(merge_input) : merge_input[j].rpid = rpid =>
             \/ extract_crawl_time_from_filename(merge_input[j])
                  < extract_crawl_time_from_filename(merge_input[i])
             \/ /\ extract_crawl_time_from_filename(merge_input[j])
                     = extract_crawl_time_from_filename(merge_input[i])
                /\ j <= i

\* C4: of two input records with the same rpid and different (parseable)
\* crawl times, the merged list holds exactly one record of that rpid, it is
\* an input record crawled no earlier than the later of the two, and the
\* earlier of the two is in the duplicate list.
C4_LaterFetchKept ==
    merge_out.run =>
        \A i, j \in 1..Len(merge_input) :
            /\ merge_input[i].rpid = merge_input[j].rpid
            /\ merge_input[i].crawl # 0
            /\ merge_input[i].crawl < merge_input[j].crawl
            => /\ Cardinality(kept_for(merge_input[i].rpid)) = 1
               /\ \A c \in kept_for(merge_input[i].rpid) :
                    /\ c.crawl >= merge_input[j].crawl
                    /\ \E k \in 1..Len(merge_input) : merge_input[k] = c
               /\ in_duplicates(merge_input[i])

\* a merge of an early popularity record and a later chronological record
\* of one comment with different like counts: the later one is reported
C4_Witness ==
    /\ merge_out.run
    /\ \E i \in 1..Len(in_popularity), j \in 1..Len(in_time) :
         /\ in_popularity[i].rpid = in_time[j].rpid
         /\ in_popularity[i].crawl # 0
         /\ in_popularity[i].crawl < in_time[j].crawl
         /\ in_popularity[i].like # in_time[j].like
         /\ kept_for(in_time[j].rpid) = {in_time[j]}
         /\ in_duplicates(in_popularity[i])

\* C6 as stated: of the records of one rpid that tie on the largest key, the
\* one met last is the merged record and the ones met before it are in the
\* duplicate list.
C6_TieLaterEncounteredKept ==
    merge_out.run =>
        \A r \in rpid_set(merge_input) :
            /\ kept_for(r) = {merge_input[last_latest(r)]}
            /\ \A j \in 1..Len(merge_input) :
                 j # last_latest(r) /\ merge_input[j].rpid = r => in_duplicates(merge_input[j])

\* C6: of the records of one rpid that tie on the largest key (equal crawl
\* times, or crawl times unparseable on both sides), the one met first is
\* the merged record and every one met after it is in the duplicate list.
C6_TieEarlierEncounteredKept ==
    merge_out.run =>
        \A r \in rpid_set(merge_input) :
            /\ kept_for(r) = {merge_input[first_latest(r)]}
            /\ \A j \in 1..Len(merge_input) :
                 j # first_latest(r) /\ merge_input[j].rpid = r => in_duplicates(merge_input[j])

\* a merge of two records of one comment that tie on the key and differ in
\* their like count: the one met first is reported
C6_Witness ==
    /\ merge_out.run
    /\ \E i, j \in 1..Len(merge_input) :
         /\ i < j
         /\ merge_input[i].rpid = merge_input[j].rpid
         /\ extract_crawl_time_from_filename(merge_input[i])
              = extract_crawl_time_from_filename(merge_input[j])
         /\ merge_input[i].like # merge_input[j].like
         /\ i = first_latest(merge_input[i].rpid)
         /\ kept_for(merge_input[i].rpid) = {merge_input[i]}
         /\ in_duplicates(merge_input[j])

(***************************************************************************)
(* Properties of the bounded test-mode driver (Spec)                       *)
(***************************************************************************)
\* C11: crawl_test_mode_comments issues at most max_pages requests; when it
\* returns, its reason has been assigned; it returns "page-limit-reached"
\* exactly when all max_pages pages were non-empty and none said is_end.
C11_PageCapRespected ==
    driver = "test_mode" =>
        /\ Len(pass_log) <= max_pages
        /\ dpc = "returned" =>
            /\ end_reason \in {REASON_NO_DATA, REASON_EXHAUSTED, REASON_PAGE_LIMIT}
            /\ end_reason = REASON_PAGE_LIMIT <=>
                 /\ Len(pass_log) = max_pages
                 /\ \A i \in 1..Len(pass_log) : pass_log[i].out = "page"

\* a test-mode pass of several pages stopped by its cap
C11_Witness ==
    /\ driver = "test_mode" /\ dpc = "returned"
    /\ max_pages >= 2
    /\ Len(pass_log) = max_pages
    /\ end_reason = REASON_PAGE_LIMIT
    /\ Len(all_comments) >= max_pages

(***************************************************************************)
(* Properties of the overlap-ratio strategy (Spec)                         *)
(***************************************************************************)
\* the ratios of one ordering are those of consecutive passes, and only the
\* last of them can have reached the threshold
ratios_of_consecutive_passes(history, rates, threshold, continue) ==
    /\ Len(rates) = IF history = <<>> THEN 0 ELSE Len(history) - 1
    /\ \A k \in 1..Len(rates) :
         /\ rates[k] = calculate_duplicate_rate(history[k], history[k + 1])
         /\ k < Len(rates) => ~rate_at_least(rates[k], threshold)
    /\ rates # <<>> /\ rate_at_least(rates[Len(rates)], threshold) => ~continue

\* C12: in crawl_duplicate_rate_iteration each ordering's ratios compare a
\* pass with the pass of the same ordering just before it, so the first pass
\* yields none; a pass of an ordering runs only while that ordering is not
\* halted, and it is halted once a ratio reached its threshold; an ordering
\* that is not halted has run in every round so far, whatever the state of
\* the other one; the loop is left exactly when both orderings are halted.
C12_OverlapHalting ==
    mode = "iter_rate" =>
        /\ ratios_of_consecutive_passes(popularity_rpid_history, popularity_duplicate_rates,
                                        popularity_threshold, popularity_continue)
        /\ ratios_of_consecutive_passes(time_rpid_history, time_duplicate_rates,
                                        time_threshold, time_continue)
        /\ pc = "rate_popularity" => popularity_continue
        /\ pc = "rate_time" => time_continue
        /\ pc = "rate_loop" =>
             /\ popularity_continue \/ time_continue
             /\ popularity_continue => Len(popularity_rpid_history) = iteration_count
             /\ time_continue => Len(time_rpid_history) = iteration_count
        /\ pc = "done" => ~popularity_continue /\ ~time_continue

\* the popularity ordering was halted by its threshold in round 2 and the
\* chronological ordering ran alone in round 3
C12_Witness ==
    /\ mode = "iter_rate" /\ pc = "rate_time" /\ dpc = "loop"
    /\ iteration_count = 3
    /\ ~popularity_continue
    /\ Len(popularity_rpid_history) = 2
    /\ popularity_duplicate_rates # <<>>
    /\ rate_at_least(popularity_duplicate_rates[1], popularity_threshold)
    /\ Len(time_rpid_history) = 2
    /\ ~rate_at_least(time_duplicate_rates[1], time_threshold)

(***************************************************************************)
(* Properties of calculate_duplicate_rate (SpecRate)                       *)
(***************************************************************************)
\* the members of B that are members of A, counted one by one
RECURSIVE count_seen(_, _)
count_seen(A, B) ==
    IF B = {} THEN 0
    ELSE LET x == CHOOSE y \in B : TRUE IN
         (IF x \in A THEN 1 ELSE 0) + count_seen(A, B \ {x})

\* C13: calculate_duplicate_rate(A, B) is 0 for an empty B and otherwise the
\* percentage 100 * |A \cap B| / |B|, between 0 and 100; 90 of B's 100
\* identities present in A give 90 percent.
C13_OverlapRatio ==
    ret.run =>
        /\ ret.val.den > 0
        /\ ret.val.num >= 0 /\ ret.val.num <= 100 * ret.val.den
        /\ IF call.current_rpids = {}
           THEN ret.val.num = 0
           ELSE ret.val.num * Cardinality(call.current_rpids)
                  = 100 * count_seen(call.prev_rpids, call.current_rpids) * ret.val.den
        /\ LET r == calculate_duplicate_rate((1..90) \cup (101..120), 1..100) IN
           r.num = 90 * r.den

\* a ratio that differs from the one with the arguments exchanged: one of
\* B's two identities is among A's three
C13_Witness ==
    /\ ret.run
    /\ Cardinality(call.prev_rpids) = 3
    /\ Cardinality(call.current_rpids) = 2
    /\ Cardinality(call.prev_rpids \cap call.current_rpids) = 1
    /\ ret.val.num = 50 * ret.val.den

(***************************************************************************)
(* Properties of the time-boxed strategy (Spec)                            *)
(***************************************************************************)
\* a pass has just been started: no request of it was issued yet
PassJustStarted == dpc = "loop" /\ pass_log = <<>>

\* C14: in crawl_time_iteration a popularity pass is started only when as
\* many chronological as popularity passes were started before, a
\* chronological pass only when one more popularity pass was started, so
\* the passes alternate beginning with popularity and the difference of the
\* two counts is 0 or 1; every pass is started before the deadline.
C14_TimeBoxedAlternation ==
    mode = "iter_time" =>
        /\ popularity_passes - time_passes \in {0, 1}
        /\ PassJustStarted =>
             /\ now < end_time
             /\ sort = 1 => popularity_passes = time_passes + 1
             /\ sort = 0 => popularity_passes = time_passes
        /\ pc = "iter_popularity" => sort = 1 /\ popularity_passes = time_passes + 1
        /\ pc = "iter_time" => sort = 0 /\ popularity_passes = time_passes
        /\ pc = "time_loop" => popularity_passes = time_passes

\* the run stopped after the popularity pass of its second round, the
\* deadline having passed during that pass
C14_Witness ==
    /\ mode = "iter_time" /\ pc = "done"
    /\ popularity_passes = 2
    /\ time_passes = 1
    /\ now >= end_time

(***************************************************************************)
(* Properties of the final merge of the orchestrators (Spec)               *)
(***************************************************************************)
\* C15: when a comprehensive or an iteration run has finished, the rpids of
\* its merged list are exactly the rpids of the records its passes
\* returned, the last pass of each ordering included.
C15_FinalMergeCoversAllPasses ==
    mode \in {"comprehensive", "iter_time", "iter_rate"} /\ pc = "done" =>
        rpid_set(merged_comments) = crawled_rpids

\* an iteration run of at least three non-empty passes that met two
\* comments, the second of them only in the last pass of its ordering
C15_Witness ==
    /\ mode \in IterModes /\ pc = "done"
    /\ Len(all_popularity_comments) + Len(all_time_comments) >= 3
    /\ Len(all_popularity_comments) >= 2
    /\ all_popularity_comments[Len(all_popularity_comments)].rpid = 2
    /\ \A i \in 1..(Len(all_popularity_comments) - 1) : all_popularity_comments[i].rpid = 1
    /\ \A i \in 1..Len(all_time_comments) : all_time_comments[i].rpid = 1
    /\ rpid_set(merged_comments) = {1, 2}

(***************************************************************************)
(* Properties of the Comment Flattener (SpecFlatten)                       *)
(***************************************************************************)
\* the reply records emitted for the thread of root, in emission order
thread_records(csv_data, root) ==
    SelectSeq(csv_data, LAMBDA c : c.kind = SubReply /\ c.rpid \div 10 = root)

\* the identities of a list of raw replies or of records, in order
rpid_list(list) == [j \in 1..Len(list) |-> list[j].rpid]

\* the hint text declares n replies: it reads "... n条回复"
declares(text, n) ==
    \E i \in 1..Len(text) : /\ i + 1 <= Len(text)
                            /\ text[i] = Digits(n)
                            /\ text[i + 1] = HintMarker

\* the reply-thread endpoint returns exactly the n distinct replies of root
source_returns(source, root, n) ==
    /\ Len(source[root].thread) = n
    /\ source[root].fail_at = 0

\* the first entry's inline sample is discarded, its thread is fetched and
\* exactly the n replies the endpoint holds are emitted for it
refetched(n) ==
    /\ \E k \in 1..Len(ret.requests) : ret.requests[k].root = 1
    /\ Len(thread_records(ret.val, 1)) = n
    /\ rpid_list(thread_records(ret.val, 1)) = rpid_list(call.source[1].thread)

\* C16 as stated: for a top-level entry with inline replies and a hint text
\* declaring N total replies (such as "37条回复"), the flattener discards the
\* inline sample, issues the reply-thread fetch and emits exactly N reply
\* records for the thread when the endpoint returns N distinct replies.
C16_HintPrecedence ==
    ret.run /\ call.fn = "process_comments_page" =>
        \A n \in 1..MaxThread :
            /\ call.replies[1].replies # <<>>
            /\ declares(call.replies[1].sub_reply_entry_text, n)
            /\ source_returns(call.source, 1, n)
            => refetched(n)

\* what does hold: the same for the hint texts that read "共N条回复"
C16_PrefixedHintPrecedence ==
    ret.run /\ call.fn = "process_comments_page" =>
        \A n \in 1..MaxThread :
            /\ call.replies[1].replies # <<>>
            /\ call.replies[1].sub_reply_entry_text = <<HintPrefix, Digits(n), HintMarker>>
            /\ source_returns(call.source, 1, n)
            => refetched(n)

C16_PrefixedWitness ==
    /\ ret.run /\ call.fn = "process_comments_page"
    /\ Len(call.replies[1].replies) = 2
    /\ call.replies[1].sub_reply_entry_text = <<HintPrefix, Digits(MaxThread), HintMarker>>
    /\ source_returns(call.source, 1, MaxThread)
    /\ refetched(MaxThread)

\* every reply record comes after the top-level record of its own thread,
\* with only replies of that thread in between
grouped_under_root(csv_data) ==
    /\ csv_data # <<>> => csv_data[1].kind = MainComment
    /\ \A j \in 2..Len(csv_data) :
          csv_data[j].kind = SubReply =>
              \/ csv_data[j - 1].kind = MainComment /\ csv_data[j - 1].rpid = csv_data[j].rpid \div 10
              \/ csv_data[j - 1].kind = SubReply /\ csv_data[j - 1].rpid \div 10 = csv_data[j].rpid \div 10

\* the reply records of each thread are in ascending publish-time order
replies_ascending(csv_data) ==
    \A j \in 1..Len(csv_data) - 1 :
        csv_data[j].kind = SubReply /\ csv_data[j + 1].kind = SubReply =>
            csv_data[j].ts <= csv_data[j + 1].ts

\* a page of one top-level entry with three inline replies and nothing to fetch
one_entry_three_inline ==
    /\ Len(call.replies) = 1
    /\ Len(call.replies[1].replies) = 3
    /\ call.replies[1].sub_reply_entry_text = <<>>
    /\ call.replies[1].rcount = 3

\* C17 as stated: per top-level entry the flattener emits the top-level
\* record first and then the entry's reply records in ascending publish-time
\* order, whatever the order in which the platform lists the replies; a page
\* of one top-level comment with three inline replies gives four records.
C17_FlattenOrder ==
    ret.run /\ call.fn = "process_comments_page" =>
        /\ grouped_under_root(ret.val)
        /\ replies_ascending(ret.val)
        /\ one_entry_three_inline => Len(ret.val) = 4

\* what does hold: the reply records keep the order of the platform's lists
C17_PlatformOrderKept ==
    ret.run /\ call.fn = "process_comments_page" =>
        /\ grouped_under_root(ret.val)
        /\ one_entry_three_inline =>
              /\ Len(ret.val) = 4
              /\ rpid_list(thread_records(ret.val, 1)) = rpid_list(call.replies[1].replies)

\* the reply-thread requests made for root, in order
requests_for(requests, root) == SelectSeq(requests, LAMBDA r : r.root = root)

\* the request for page pn of root is answered with a fault of kinds
faulted(source, r, kinds) ==
    source[r.root].fail_at = r.pn /\ source[r.root].fault \in kinds

\* C24 as stated: an HTTP 412 answer to a reply-thread request aborts the
\* run; it is not handled as a recoverable failure of the thread after which
\* further reply threads are fetched.
C24_SubReply412Aborts ==
    ret.run /\ call.fn = "process_comments_page" =>
        \A i \in 1..Len(ret.requests) :
            faulted(call.source, ret.requests[i], {"http_412"}) =>
                /\ i = Len(ret.requests)
                /\ \A j \in 1..Len(ret.val) : ret.val[j].rpid \div 10 # 2 /\ ret.val[j].rpid # 2

\* what does hold: an HTTP 412 answer has the effect of a network error
C24_412LikeNetworkError ==
    ret.run /\ call.fn = "process_comments_page" /\ call.source[1].fault = "http_412" =>
        LET source == [call.source EXCEPT ![1].fault = "network"] IN
        /\ ret.val = process_comments_page(call.replies, 1, source)
        /\ ret.requests = sub_reply_requests(call.replies, 1, source)

\* the first entry has no hint text and k inline replies, reports n replies,
\* and the endpoint holds n replies of which the first k are the inline ones
inline_prefix_of_thread(k, n) ==
    /\ call.replies[1].sub_reply_entry_text = <<>>
    /\ Len(call.replies[1].replies) = k
    /\ call.replies[1].rcount = n
    /\ source_returns(call.source, 1, n)
    /\ rpid_list(call.replies[1].replies) = rpid_list(SubSeq(call.source[1].thread, 1, k))

\* the reply records of the first entry hold every reply of its thread once
whole_thread_once ==
    LET emitted == rpid_list(thread_records(ret.val, 1)) IN
    /\ Len(emitted) = Len(call.source[1].thread)
    /\ \A j \in 1..Len(call.source[1].thread) :
          \E i \in 1..Len(emitted) : emitted[i] = call.source[1].thread[j].rpid

\* C25 as stated: for an entry with k >= 1 inline replies, no hint text and a
\* reported count n > k, where the endpoint holds n replies whose first k are
\* the inline ones, exactly n reply records are emitted, every reply once,
\* for all k and n, also when n - k exceeds the page size.
C25_SupplementExact ==
    ret.run /\ call.fn = "process_comments_page" =>
        \A k \in 1..MaxInline : \A n \in (k + 1)..MaxThread :
            inline_prefix_of_thread(k, n) => whole_thread_once

\* what does hold: the same when the inline replies fill whole pages, or
\* when the missing replies all lie on the page the inline sample ends in
C25_SupplementWithinPage ==
    ret.run /\ call.fn = "process_comments_page" =>
        \A k \in 1..MaxInline : \A n \in (k + 1)..MaxThread :
            /\ inline_prefix_of_thread(k, n)
            /\ k % page_size = 0 \/ n <= ((k \div page_size) + 1) * page_size
            => whole_thread_once

C25_WithinPageWitness ==
    /\ ret.run /\ call.fn = "process_comments_page"
    /\ inline_prefix_of_thread(2, 4)
    /\ ret.requests = <<[root |-> 1, pn |-> 2]>>
    /\ whole_thread_once

\* C26 as stated: when the hint text is present but its number cannot be
\* parsed, the flattener falls back to the reported reply count and still
\* emits the thread's replies (inline sample and/or fetched); the replies of
\* such an entry are never omitted.
C26_UnparsedHintFallsBack ==
    ret.run /\ call.fn = "process_comments_page" =>
        LET entry == call.replies[1] IN
        /\ entry.sub_reply_entry_text # <<>>
        /\ contains_marker(entry.sub_reply_entry_text)
        /\ ~re_search(entry.sub_reply_entry_text).matched
        /\ entry.rcount > 0
        /\ source_returns(call.source, 1, entry.rcount)
        => thread_records(ret.val, 1) # <<>>

\* the replies the endpoint returns to a list of requests, in order
RECURSIVE returned_replies(_, _)
returned_replies(source, requests) ==
    IF requests = <<>> THEN <<>>
    ELSE sub_reply_response(source, Head(requests).root, Head(requests).pn).replies
            \o returned_replies(source, Tail(requests))

\* the first entry reports replies but carries no hint text and none inline
count_only_entry ==
    /\ call.replies[1].sub_reply_entry_text = <<>>
    /\ call.replies[1].replies = <<>>
    /\ call.replies[1].rcount > 0

\* C27: an entry that reports a positive reply count but carries no inline
\* replies and no hint text gets a full reply-thread fetch for its id, from
\* page 1 on without offset, and the replies returned are emitted.
C27_CountOnlyFullFetch ==
    ret.run /\ call.fn = "process_comments_page" /\ count_only_entry =>
        LET asked == requests_for(ret.requests, 1) IN
        /\ asked # <<>>
        /\ \A i \in 1..Len(asked) : asked[i].pn = i
        /\ rpid_list(thread_records(ret.val, 1))
              = rpid_list(returned_replies(call.source, asked))

\* a count-only entry whose three replies are fetched with two requests
C27_Witness ==
    /\ ret.run /\ call.fn = "process_comments_page" /\ count_only_entry
    /\ call.replies[1].rcount = 3
    /\ source_returns(call.source, 1, 3)
    /\ requests_for(ret.requests, 1) = <<[root |-> 1, pn |-> 1], [root |-> 1, pn |-> 2]>>
    /\ Len(thread_records(ret.val, 1)) = 3

\* the failures C28 names
PartialFaults == {"network", "api_code", "malformed"}

\* the replies of the pages asked for before the failed one, less the offset
\* skipped on the first of them, are all emitted for the first entry
earlier_pages_kept ==
    LET asked == requests_for(ret.requests, 1)
        skip_count == IF re_search(call.replies[1].sub_reply_entry_text).matched
                      THEN 0 ELSE Len(call.replies[1].replies)
        emitted == rpid_list(thread_records(ret.val, 1))
    IN  \A i \in 1..Len(asked) - 1 :
          LET page == skip_slice(thread_page(call.source[1].thread, asked[i].pn),
                                 asked[i].pn, asked[1].pn, skip_count)
          IN  \A j \in 1..Len(page) : \E e \in 1..Len(emitted) : emitted[e] = page[j].rpid

\* every top-level entry of the page has its record, and the second entry's
\* thread is fetched and emitted as if the first had not failed
page_goes_on ==
    /\ Len(SelectSeq(ret.val, LAMBDA c : c.kind = MainComment)) = Len(call.replies)
    /\ Len(call.replies) = 2 =>
          /\ thread_records(ret.val, 2)
                = thread_records(process_entry(call.replies[2], 1, call.source).csv_data, 2)
          /\ requests_for(ret.requests, 2)
                = process_entry(call.replies[2], 1, call.source).requests

\* C28: when a request of a reply thread fails (network error, non-zero API
\* code, malformed data) on page p, the replies of the pages before p are
\* kept and emitted, no further page of the thread is requested, and the
\* flattening goes on with the remaining entries of the page.
C28_PartialThreadKept ==
    ret.run /\ call.fn = "process_comments_page" =>
        LET asked == requests_for(ret.requests, 1) IN
        \A i \in 1..Len(asked) :
            faulted(call.source, asked[i], PartialFaults) =>
                /\ i = Len(asked)
                /\ earlier_pages_kept
                /\ page_goes_on

\* page 2 of the first thread fails: the two replies of page 1 are emitted
\* and the reply of the second entry is fetched afterwards
C28_Witness ==
    /\ ret.run /\ call.fn = "process_comments_page"
    /\ call.source[1].fail_at = 2 /\ call.source[1].fault = "malformed"
    /\ ret.requests = <<[root |-> 1, pn |-> 1], [root |-> 1, pn |-> 2], [root |-> 2, pn |-> 1]>>
    /\ Len(thread_records(ret.val, 1)) = 2
    /\ Len(thread_records(ret.val, 2)) = 1

\* the first entry's thread is fetched in full: by its hint or by its count
full_fetch_entry ==
    \/ re_search(call.replies[1].sub_reply_entry_text).matched
    \/ count_only_entry

\* C29 as stated: a full reply-thread fetch requests consecutive pages until
\* a page returns fewer entries than the page size or a request fails, and
\* does not stop earlier, in particular not because the number of pages
\* derived from the declared count has been requested while the last page
\* was full.
C29_FetchUntilShortPage ==
    ret.run /\ call.fn = "process_comments_page" /\ full_fetch_entry =>
        LET asked == requests_for(ret.requests, 1) IN
        asked # <<>> =>
            LET response == sub_reply_response(call.source, 1, asked[Len(asked)].pn) IN
            \/ response.fault # "none"
            \/ Len(response.replies) < page_size

\* the reply count the first entry's full fetch is given
declared_total ==
    LET match == re_search(call.replies[1].sub_reply_entry_text) IN
    IF match.matched THEN match.group1 ELSE call.replies[1].rcount

\* what does hold: the fetch stops at a short page, at a failed request, or
\* when the pages derived from the declared count have been requested
C29_FetchBoundedByDeclared ==
    ret.run /\ call.fn = "process_comments_page" /\ full_fetch_entry =>
        LET asked == requests_for(ret.requests, 1) IN
        /\ \A i \in 1..Len(asked) : asked[i].pn = i
        /\ asked # <<>> =>
            LET response == sub_reply_response(call.source, 1, Len(asked)) IN
            \/ response.fault # "none"
            \/ Len(response.replies) < page_size
            \/ Len(asked) = ((declared_total - 1) \div page_size) + 1

(***************************************************************************)
(* Properties of the propagation of the ban signal (SpecRaise)             *)
(***************************************************************************)
\* C18 as stated: a CookieBannedException raised during a run in any mode,
\* iteration mode included, reaches the handler of __main__, which deletes
\* the run's output folder before exiting; no frame in between catches it
\* and turns it into an ordinary failure return.
C18_BanReachesTopLevel ==
    ret.run /\ call.fn = "raise" /\ call.exc = "CookieBannedException" =>
        /\ ret.caught.caught_in = "__main__"
        /\ ret.val.handler = "cookie_banned"
        /\ ret.val.output_deleted

\* what does hold: in comprehensive and test mode the signal reaches the
\* handler of __main__ and the output folder is deleted
C18_BanHandledOutsideIteration ==
    /\ ret.run /\ call.fn = "raise" /\ call.exc = "CookieBannedException"
    /\ call.mode \in {"comprehensive", "test"}
    => /\ ret.caught.caught_in = "__main__"
       /\ ret.val.handler = "cookie_banned"
       /\ ret.val.output_deleted

(***************************************************************************)
(* Properties of the delay between requests (Spec)                         *)
(***************************************************************************)
\* C19 as stated: within a pass every comment-page fetch is followed by the
\* configured blocking delay before the driver's next action, also the last
\* fetch of the pass, the one that leads to its termination.
C19_DelayAfterEveryFetch ==
    \A i \in 1..Len(pass_log) : pass_log[i].slept

\* what does hold: the delay follows every fetch after which the loop body
\* runs to its end; a fetch that makes the driver break is followed by none
C19_DelayUnlessBreak ==
    \A i \in 1..Len(pass_log) :
        pass_log[i].slept <=>
            \/ i < Len(pass_log)
            \/ dpc = "loop"
            \/ end_reason = REASON_PAGE_LIMIT

(***************************************************************************)
(* Properties of the two phases of the merge (SpecMerge)                   *)
(***************************************************************************)
\* the labels the running merge function annotates its duplicates with
pop_label == IF merge_fn = "comprehensive" THEN "pop_sort" ELSE "pop_crawl"
time_label == IF merge_fn = "comprehensive" THEN "time_sort" ELSE "time_crawl"
merge_label == IF merge_fn = "comprehensive" THEN "merge" ELSE "final_merge"

\* how often a record occurs in a list, annotations set aside
occurrences(list, comment) ==
    Cardinality({k \in 1..Len(list) : without_source(list[k]) = comment})

\* list is folded by identity into kept, the losers being losers: kept holds
\* one record per rpid of list and every record of list is kept or a loser
folded(list, kept, losers) ==
    /\ unique_rpids(kept)
    /\ rpid_set(kept) = rpid_set(list)
    /\ \A c \in InputComments :
         occurrences(list, c) = occurrences(kept, c) + occurrences(losers, c)

\* the records a fold of list loses
losers_of(list) == Len(list) - Cardinality(rpid_set(list))

\* C20: the merge runs in two phases.  Each pass is folded by identity on its
\* own and its losers are recorded with the pass's label; the survivors of
\* the passes, concatenated in pass order, are folded again and the losers
\* of that fold are recorded with the merge label; the duplicates returned
\* are the popularity pass's, then the chronological pass's, then the merge's.
C20_TwoPhaseMerge ==
    merge_out.run =>
        LET res == merge_out.res
            d == res.all_duplicates
            np == losers_of(in_popularity)
            nt == losers_of(in_time)
            nm == losers_of(res.deduped_popularity \o res.deduped_time)
        IN  /\ Len(d) = np + nt + nm
            /\ \A k \in 1..Len(d) :
                 d[k].src = IF k <= np THEN pop_label
                            ELSE IF k <= np + nt THEN time_label
                            ELSE merge_label
            /\ folded(in_popularity, res.deduped_popularity, SubSeq(d, 1, np))
            /\ folded(in_time, res.deduped_time, SubSeq(d, np + 1, np + nt))
            /\ folded(res.deduped_popularity \o res.deduped_time, res.final_comments,
                      SubSeq(d, np + nt + 1, Len(d)))

\* a merge in which each of the three folds loses a record
C20_Witness ==
    /\ merge_out.run
    /\ losers_of(in_popularity) = 1
    /\ losers_of(in_time) = 1
    /\ losers_of(merge_out.res.deduped_popularity \o merge_out.res.deduped_time) = 1
    /\ Len(merge_out.res.all_duplicates) = 3
    /\ merge_out.res.all_duplicates[1].src = pop_label
    /\ merge_out.res.all_duplicates[2].src = time_label
    /\ merge_out.res.all_duplicates[3].src = merge_label

reorderings(d) ==
    {[i \in 1..Len(d) |-> d[p[i]]] : p \in Permutations(1..Len(d))}

\* d, and d with a stale signature added or removed
with_stale_w_rid(d) ==
    {d, without_w_rid(d)}
      \cup {Append(without_w_rid(d), [key |-> "w_rid", value |-> v]) : v \in SignValues}

\* the place of a key in the signed string
sign_rank(key) ==
    IF key = "oid" THEN 1 ELSE IF key = "type" THEN 2 ELSE IF key = "sort" THEN 3
    ELSE IF key = "ps" THEN 4 ELSE IF key = "pn" THEN 5 ELSE IF key = "seek_rpid" THEN 6
    ELSE IF key = "plat" THEN 7 ELSE IF key = "web_location" THEN 8
    ELSE IF key = "wts" THEN 9
    ELSE 9 + (CHOOSE i \in 1..Len(KeysSorted) : KeysSorted[i] = key)

\* C22: generate_w_rid is deterministic.  Two maps with the same keys and
\* values give the same signature, whatever the insertion order of the keys
\* and whether or not a stale w_rid is among them; the signed string lists
\* oid, type, sort, ps, then pn / seek_rpid, then plat, web_location, wts,
\* then the remaining keys in lexicographic order, each item once.
C22_SignatureDeterministic ==
    ret.run /\ call.fn = "generate_w_rid" =>
        LET string == ret.val.md5_of
            n == Len(string) - 1
        IN  /\ \A d \in with_stale_w_rid(call.params) :
                 \A q \in reorderings(d) : generate_w_rid(q) = ret.val
            /\ string[n + 1] = SignSalt
            /\ {string[i] : i \in 1..n}
                 = {call.params[i] : i \in 1..Len(call.params)}
                     \ [key : {"w_rid"}, value : SignValues]
            /\ \A i \in 1..n - 1 : sign_rank(string[i].key) < sign_rank(string[i + 1].key)

\* a map given with its keys out of order, with two keys outside the fixed
\* order and a stale signature
C22_Witness ==
    /\ ret.run /\ call.fn = "generate_w_rid"
    /\ Len(call.params) = 4
    /\ call.params[1].key = "next"
    /\ call.params[2].key = "w_rid"
    /\ call.params[3].key = "mode"
    /\ call.params[4].key = "oid"
    /\ Len(ret.val.md5_of) = 4
    /\ ret.val.md5_of[1].key = "oid"
    /\ ret.val.md5_of[2].key = "mode"
    /\ ret.val.md5_of[3].key = "next"

(***************************************************************************)
(* Properties of the identity codec (SpecCodec)                            *)
(***************************************************************************)
\* a display id with its prefix in upper case
normalized(bvid) == [i \in 1..Len(bvid) |-> IF i <= 2 THEN upper(bvid[i]) ELSE bvid[i]]

\* C23 as stated: bvid_to_aid(aid_to_bvid(n)) = n for every stable id n with
\* 1 <= n < MAX, and aid_to_bvid(bvid_to_aid(id)) = id, up to the case of the
\* prefix, for every display id that bvid_to_aid accepts.
C23_CodecRoundTrip ==
    ret.run =>
        /\ call.fn = "aid_to_bvid" /\ call.aid >= MIN_AID /\ call.aid < MAX_AID =>
             /\ ret.bv.ok
             /\ ret.av = [ok |-> TRUE, aid |-> call.aid]
        /\ call.fn = "bvid_to_aid" /\ ret.av.ok =>
             ret.bv = [ok |-> TRUE, bvid |-> normalized(call.bvid)]

\* what does hold: the round trip from every stable id, and from every
\* accepted display id but the one that decodes to 0
C23_RoundTripButZero ==
    ret.run =>
        /\ call.fn = "aid_to_bvid" /\ call.aid >= MIN_AID /\ call.aid < MAX_AID =>
             /\ ret.bv.ok
             /\ Len(ret.bv.bvid) = BV_LEN
             /\ ret.av = [ok |-> TRUE, aid |-> call.aid]
        /\ call.fn = "bvid_to_aid" /\ ret.av.ok /\ ret.av.aid # 0 =>
             ret.bv = [ok |-> TRUE, bvid |-> normalized(call.bvid)]
        /\ call.fn = "bvid_to_aid" /\ ret.av.ok /\ ret.av.aid = 0 => ~ret.bv.ok

(***************************************************************************)
(* Properties of the export of the merged set (SpecExport)                 *)
(***************************************************************************)
\* the top-level row that the row at place j is emitted under
row_above(rows, j) ==
    rows[CHOOSE i \in 1..j : /\ rows[i].kind = MainComment
                             /\ \A m \in (i + 1)..j : rows[m].kind # MainComment]

\* the reply row at place j stands under its own thread root and is numbered
\* by its place behind it
under_own_root(rows, j) ==
    /\ \E i \in 1..j : rows[i].kind = MainComment
    /\ row_above(rows, j).rpid = rows[j].rpid \div 10
    /\ \E i \in 1..j : /\ rows[i] = row_above(rows, j)
                       /\ rows[j].sub_index = j - i

\* C30 as stated: after the merge of a popularity pass and a chronological
\* pass and the sort for export, every reply record is grouped under
\* (emitted after, and numbered within) the top-level comment that is its
\* own thread root, also when the reply was seen only in the second pass
\* while its top-level comment was first seen in the first pass.
C30_RepliesUnderOwnRoot ==
    ret.run /\ call.fn = "export" =>
        /\ \A j \in 1..Len(ret.val) :
              ret.val[j].kind = SubReply => under_own_root(ret.val, j)
        /\ \A i \in 1..Len(merge_out.res.final_comments) :
              merge_out.res.final_comments[i].kind = SubReply =>
                 \E j \in 1..Len(ret.val) :
                     ret.val[j].rpid = merge_out.res.final_comments[i].rpid

\* what does hold: the replies stand under their own root when the merged
\* list is the first pass alone, the second pass adding no record
C30_GroupedWhenSecondAddsNothing ==
    /\ ret.run /\ call.fn = "export"
    /\ rpid_set(in_time) \subseteq rpid_set(in_popularity)
    => \A j \in 1..Len(ret.val) :
          ret.val[j].kind = SubReply => under_own_root(ret.val, j)

C30_GroupedWitness ==
    /\ ret.run /\ call.fn = "export"
    /\ rpid_list(in_popularity) = <<2, 21, 1, 11, 12>>
    /\ rpid_list(in_time) = <<1, 12, 2>>
    /\ in_popularity[3].like = 1 /\ in_popularity[1].like = 0
    /\ in_time[1].crawl > in_popularity[1].crawl
    /\ [j \in 1..Len(ret.val) |-> ret.val[j].rpid] = <<1, 11, 12, 2, 21>>

(***************************************************************************)
(* Properties of the exported duplicates list of the iterations (Spec)     *)
(***************************************************************************)
\* the records both iterations accumulate over their passes
iteration_input == all_popularity_comments \o all_time_comments

\* how many records of a list carry rpid
count_rpid(list, rpid) == Cardinality({k \in 1..Len(list) : list[k].rpid = rpid})

\* C31 as stated: in both iterations the exported duplicates list holds
\* exactly the records that lost a comparison of the final merge: every
\* record of the passes is either in the exported merged set or, when it was
\* superseded, in the exported duplicates list, and none is in both.
C31_DuplicatesAreLosers ==
    mode \in IterModes /\ pc = "done" =>
        \A c \in {iteration_input[k] : k \in 1..Len(iteration_input)} :
            occurrences(duplicate_comments, c)
                = occurrences(iteration_input, c) - occurrences(merged_comments, c)

\* what does hold: the exported list holds, for every identity, one record
\* less than the passes do, namely every record but the first crawled one
C31_DuplicatesAreLaterSightings ==
    mode \in IterModes /\ pc = "done" =>
        /\ duplicate_comments = seen_again(iteration_input)
        /\ \A r \in Rpids :
              count_rpid(iteration_input, r) > 0 =>
                 count_rpid(duplicate_comments, r) = count_rpid(iteration_input, r) - 1

(***************************************************************************)
(* Properties of the merge on objects (SpecMergeObjects)                   *)
(***************************************************************************)
\* the merge function that ran, on the values of the passes
merge_on_values ==
    IF merge_fn = "comprehensive"
    THEN merge_and_deduplicate_comments(in_popularity, in_time)
    ELSE perform_iteration_deduplication(in_popularity, in_time)

\* C32: the merge does not mutate its inputs.  After it returns, the objects
\* of both passes hold what they held before (so the passes have the same
\* length, order and contents), the annotation is written only on the copies
\* the duplicates list refers to, and no object of a pass or of the merged
\* set carries an annotation.
C32_MergeLeavesInputs ==
    ret.run /\ call.fn = "merge_objects" =>
        LET res == ret.res
            passes == popularity_refs \o time_refs
        IN  /\ deref(res.heap, popularity_refs) = in_popularity
            /\ deref(res.heap, time_refs) = in_time
            /\ \A k \in 1..Len(res.all_duplicates) :
                  /\ res.all_duplicates[k] > Len(passes)
                  /\ res.heap[res.all_duplicates[k]].src # ""
            /\ \A k \in 1..Len(res.final_comments) :
                  /\ res.final_comments[k] <= Len(passes)
                  /\ res.heap[res.final_comments[k]].src = ""
            /\ deref(res.heap, res.final_comments) = merge_on_values.final_comments
            /\ deref(res.heap, res.all_duplicates) = merge_on_values.all_duplicates

\* a merge that supersedes a record already kept and turns down a later one
C32_Witness ==
    /\ ret.run /\ call.fn = "merge_objects"
    /\ Len(in_popularity) = 2 /\ Len(in_time) = 2
    /\ in_popularity[1].rpid = 1 /\ in_popularity[2].rpid = 1
    /\ in_popularity[2].crawl > in_popularity[1].crawl
    /\ in_time[1].rpid = 1 /\ in_time[1].crawl <= in_popularity[2].crawl
    /\ Len(ret.res.all_duplicates) >= 2
    /\ Len(ret.res.heap) = 4 + Len(ret.res.all_duplicates)

(***************************************************************************)
(* Properties of the two sort functions (SpecSort)                         *)
(***************************************************************************)
sort_ran == ret.run /\ call.fn \in {"sort_comments_by_popularity", "sort_comments_by_time"}

\* the rows of the top-level comments, in output order
main_rows(rows) == SelectSeq(rows, LAMBDA row : row.kind = MainComment)

\* a is published no later than b; an unknown publish time counts as latest
not_later(a, b) == b.ts = 0 \/ (a.ts # 0 /\ a.ts <= b.ts)

\* the top-level rows are in the order of the function that ran
mains_ordered(rows) ==
    LET mains == main_rows(rows) IN
    \A i \in 1..Len(mains) - 1 :
        IF call.fn = "sort_comments_by_popularity"
        THEN \/ mains[i].like > mains[i + 1].like
             \/ mains[i].like = mains[i + 1].like /\ not_later(mains[i], mains[i + 1])
        ELSE not_later(mains[i], mains[i + 1])

\* consecutive reply rows are in ascending publish-time order
subs_ascending(rows) ==
    \A j \in 1..Len(rows) - 1 :
        rows[j].kind = SubReply /\ rows[j + 1].kind = SubReply =>
            not_later(rows[j], rows[j + 1])

\* top-level rows are numbered 1..m, reply rows 1..r behind their top-level row
renumbered(rows) ==
    /\ \A i \in 1..Len(main_rows(rows)) : main_rows(rows)[i].main_index = i
    /\ \A j \in 1..Len(rows) :
          /\ rows[j].kind = MainComment => rows[j].sub_index = 0
          /\ rows[j].kind = SubReply =>
                j > 1 /\ rows[j].sub_index = rows[j - 1].sub_index + 1

\* every reply of the input stands, in the output, in the block of rows
\* behind the top-level row of its own thread
followed_by_own_replies(comments, rows) ==
    \A k \in 1..Len(comments) :
        comments[k].kind = SubReply =>
            \E j \in 1..Len(rows) :
                /\ rows[j].rpid = comments[k].rpid
                /\ under_own_root(rows, j)

\* a list as a pass or a merge hands it over: it begins with a top-level record
begins_with_main(comments) == comments # <<>> => comments[1].kind = MainComment

\* C33 as stated: sort_comments_by_popularity orders the top-level comments
\* by like count descending, ties by publish time ascending, and
\* sort_comments_by_time by publish time ascending; in both each top-level
\* comment is immediately followed by its replies in ascending publish-time
\* order, top-level rows are renumbered 1..m and reply rows 1..r per thread.
C33_SortOrder ==
    sort_ran /\ begins_with_main(call.comments) =>
        /\ mains_ordered(ret.val)
        /\ subs_ascending(ret.val)
        /\ renumbered(ret.val)
        /\ followed_by_own_replies(call.comments, ret.val)

\* every reply of the list stands behind the top-level record of its thread
RECURSIVE well_grouped(_, _)
well_grouped(comments, root) ==
    IF comments = <<>> THEN TRUE
    ELSE IF Head(comments).kind = MainComment
    THEN well_grouped(Tail(comments), Head(comments).rpid)
    ELSE Head(comments).rpid \div 10 = root /\ well_grouped(Tail(comments), root)

\* what does hold: order and numbering for every list, and the replies
\* behind their own top-level comment when the input has them so
C33_SortOrderOfGroupedInput ==
    sort_ran =>
        /\ mains_ordered(ret.val)
        /\ subs_ascending(ret.val)
        /\ renumbered(ret.val)
        /\ well_grouped(call.comments, 0) /\ unique_rpids(call.comments) =>
              followed_by_own_replies(call.comments, ret.val)

C33_GroupedWitness ==
    /\ sort_ran /\ call.fn = "sort_comments_by_popularity"
    /\ rpid_list(call.comments) = <<1, 11, 2, 21>>
    /\ call.comments[1].like = 0 /\ call.comments[3].like = 1
    /\ [j \in 1..Len(ret.val) |-> ret.val[j].rpid] = <<2, 21, 1, 11>>
    /\ [j \in 1..Len(ret.val) |-> ret.val[j].main_index] = <<1, 0, 2, 0>>

\* how often rpid occurs in a list of records or rows
times_in(list, rpid) == Cardinality({k \in 1..Len(list) : list[k].rpid = rpid})

C38_SortKeepsRecordsBehindMain ==
    sort_ran /\ begins_with_main(call.comments) =>
        \A r \in {1, 2, 11, 21} : times_in(ret.val, r) = times_in(call.comments, r)

C38_BehindMainWitness ==
    /\ sort_ran /\ call.fn = "sort_comments_by_time"
    /\ rpid_list(call.comments) = <<2, 11, 1, 1>>
    /\ Len(ret.val) = 4

(***************************************************************************)
(* Properties of the scheduling of the overlap-ratio strategy (Spec)       *)
(***************************************************************************)
\* the step that ends the handling of a pass of the ordering handled at
\* at_pc: flag, history and rates are the ordering's, before and after
pass_handled(at_pc, flag, flag2, history, history2, rates, rates2, threshold) ==
    pc = at_pc /\ pc' # at_pc =>
        \* a pass that returned no records halts the ordering, no ratio
        /\ all_comments = <<>> =>
              ~flag2 /\ rates2 = rates /\ history2 = history
        \* nothing but such a pass or a ratio that reached the threshold does
        /\ flag /\ ~flag2 /\ all_comments # <<>> =>
              /\ Len(rates2) = Len(rates) + 1
              /\ rate_at_least(rates2[Len(rates2)], threshold)

\* C34: in the overlap-ratio strategy an ordering that is not halted is
\* scheduled in every round; it is halted only by a ratio that reached its
\* threshold or by a pass that returned no records; such a pass halts it and
\* records no ratio for the round; a halted ordering stays halted.
C34_ScheduledUntilHalted ==
    [][mode = "iter_rate" =>
        /\ pc = "rate_loop" /\ pc' # "rate_loop" =>
              /\ popularity_continue => pc' = "rate_popularity" /\ sort' = 1
              /\ ~popularity_continue => time_continue /\ pc' = "rate_time" /\ sort' = 0
        /\ pc = "rate_popularity" /\ pc' # "rate_popularity" =>
              IF time_continue THEN pc' = "rate_time" /\ sort' = 0
              ELSE pc' \in {"rate_loop", "done"}
        /\ pass_handled("rate_popularity", popularity_continue, popularity_continue',
                        popularity_rpid_history, popularity_rpid_history',
                        popularity_duplicate_rates, popularity_duplicate_rates',
                        popularity_threshold)
        /\ pass_handled("rate_time", time_continue, time_continue',
                        time_rpid_history, time_rpid_history',
                        time_duplicate_rates, time_duplicate_rates', time_threshold)
        /\ ~popularity_continue => ~popularity_continue'
        /\ ~time_continue => ~time_continue'
        /\ pc # "rate_popularity" => popularity_continue' = popularity_continue
        /\ pc # "rate_time" => time_continue' = time_continue
      ]_vars

\* the popularity ordering was halted in round 2 by a pass without records,
\* with no ratio recorded, while the chronological one goes on
C34_Witness ==
    /\ mode = "iter_rate" /\ pc = "rate_loop"
    /\ iteration_count = 2
    /\ ~popularity_continue
    /\ Len(popularity_rpid_history) = 1
    /\ popularity_duplicate_rates = <<>>
    /\ time_continue
    /\ Len(time_rpid_history) = 2
    /\ Len(time_duplicate_rates) = 1

(***************************************************************************)
(* Termination of the overlap-ratio strategy (Spec)                        *)
(***************************************************************************)
\* every pass of an ordering that returned records returned the same set
stable(history) == \A k \in 1..Len(history) : history[k] = history[1]

\* an ordering with a stable set is halted by its second pass with records
halted_by_second_pass(history, rates, continue) ==
    stable(history) =>
        /\ Len(history) <= 2
        /\ Len(history) = 2 => ~continue /\ Len(rates) = 1

\* the rounds of a run of stable sets: a third round is never begun
at_most_two_rounds ==
    stable(popularity_rpid_history) /\ stable(time_rpid_history) =>
        /\ iteration_count <= 2
        /\ pc = "rate_loop" => iteration_count < 2

\* an ordering still scheduled between rounds has returned records in every
\* round: a pass without records halted it at once
halted_at_once(history, continue) ==
    pc = "rate_loop" /\ continue => Len(history) = iteration_count

\* C36: the overlap-ratio loop terminates.  When the comment set does not
\* change between the passes and every pass completes, the thresholds lying
\* strictly between 0 and 100, each ordering is halted after its second pass
\* and the loop ends after at most two rounds; an ordering whose pass returns
\* no records is halted at once.
C36_OverlapLoopTerminates ==
    mode = "iter_rate" =>
        /\ popularity_threshold > 0 /\ popularity_threshold < 100
        /\ time_threshold > 0 /\ time_threshold < 100
        /\ halted_by_second_pass(popularity_rpid_history, popularity_duplicate_rates,
                                 popularity_continue)
        /\ halted_by_second_pass(time_rpid_history, time_duplicate_rates, time_continue)
        /\ at_most_two_rounds
        /\ halted_at_once(popularity_rpid_history, popularity_continue)
        /\ halted_at_once(time_rpid_history, time_continue)

\* a run of two rounds over a stable set that has ended: both orderings
\* were halted by the ratio of their second pass
C36_Witness ==
    /\ mode = "iter_rate" /\ pc = "done"
    /\ iteration_count = 2
    /\ Len(popularity_rpid_history) = 2 /\ stable(popularity_rpid_history)
    /\ Len(time_rpid_history) = 2 /\ stable(time_rpid_history)
    /\ Len(popularity_duplicate_rates) = 1 /\ Len(time_duplicate_rates) = 1

(***************************************************************************)
(* C37: the page numbers requested within one pass                         *)
(***************************************************************************)
\* the k-th request of the running pass got a non-empty page
page_succeeded(k) == pass_log[k].out \in {"page", "page-end"}

\* C37: within one pass of a crawl driver the k-th request asks for page k:
\* the first request carries no page number, every later one carries pn = k,
\* a further request follows only a successful non-empty page, the page
\* counter is ahead of the requests made only after such a page, and no
\* request carries the cursor the platform returned.
C37_PageNumbersInOrder ==
    driver # "none" =>
        /\ \A k \in 1..Len(pass_log) :
            LET params == pass_log[k].params IN
            /\ k = 1 => "pn" \notin DOMAIN params
            /\ k > 1 => "pn" \in DOMAIN params /\ params["pn"] = k
            /\ "seek_rpid" \notin DOMAIN params
            /\ k < Len(pass_log) => page_succeeded(k)
        /\ page_count \in {Len(pass_log), Len(pass_log) + 1}
        /\ page_count >= 1
        /\ (page_count = Len(pass_log) + 1 /\ pass_log # <<>>)
              => page_succeeded(Len(pass_log))

\* a pass made three requests while holding a cursor the platform returned
C37_Witness ==
    /\ driver # "none"
    /\ Len(pass_log) = 3
    /\ pass_log[2].next_offset # NoOffset
    /\ pass_log[3].next_offset # NoOffset
    /\ pass_log[3].params = [k \in {"pn"} |-> 3]

(***************************************************************************)
(* C35: the two phases amount to one global rule                           *)
(***************************************************************************)
\* the comparison keys of the occurrences of rpid in the two passes
keys_of(rpid) ==
    {extract_crawl_time_from_filename(merge_input[i]) :
        i \in {k \in 1..Len(merge_input) : merge_input[k].rpid = rpid}}

\* C35: for every rpid occurring in a pass, the merged list holds one record
\* of that rpid and its comparison key is the largest key over all the
\* occurrences of the rpid in the two passes, however the occurrences are
\* spread over the passes.
C35_GlobalLatestKept ==
    merge_out.run =>
        \A r \in rpid_set(merge_input) :
            /\ Cardinality(kept_for(r)) = 1
            /\ \A c \in kept_for(r) :
                 /\ extract_crawl_time_from_filename(c) \in keys_of(r)
                 /\ \A key \in keys_of(r) : key <= extract_crawl_time_from_filename(c)

\* a merge of three sightings of one comment with three different keys, the
\* latest of them the second record of the chronological pass
C35_Witness ==
    /\ merge_out.run
    /\ Len(in_popularity) >= 1 /\ Len(in_time) = 2
    /\ in_time[1].rpid = in_popularity[1].rpid
    /\ in_time[2].rpid = in_popularity[1].rpid
    /\ extract_crawl_time_from_filename(in_time[1])
         < extract_crawl_time_from_filename(in_popularity[1])
    /\ extract_crawl_time_from_filename(in_popularity[1])
         < extract_crawl_time_from_filename(in_time[2])
    /\ kept_for(in_time[2].rpid) = {in_time[2]}

====
